---- MODULE Spec2Model ----
(***************************************************************************)
(* A model of KVTreeStorage (src/src/cfkvtree.js): a path-addressed tree   *)
(* kept in a flat key-value store, and of its retry wrapper.               *)
(*                                                                         *)
(* Spec           one caller issuing whole calls against a store that      *)
(*                never fails (every call runs to its return or throw).    *)
(* SpecSuccessful the same caller making createNode, setValue, deleteNode  *)
(*                and moveNode calls only, all of which return normally.   *)
(* SpecRetry      withRetry, one step per loop iteration, over a scripted  *)
(*                operation.                                               *)
(* SpecBatch      one call of batchCreateNodes.                            *)
(* SpecKeys       createStorageKey on pairs of paths.                      *)
(* SpecRoundTrip  PathParser (src/src/pathparser.js): createPath, then     *)
(*                parsePath.                                               *)
(* SpecParse      PathParser: parsePath.                                   *)
(* SpecFaults     one caller, one store call per step, the store failing   *)
(*                some of them; a deleteNode may follow the first call.    *)
(* SpecRace       two callers, one call each, one store call per step in   *)
(*                any interleaving.                                        *)
(***************************************************************************)
EXTENDS Integers, Sequences, FiniteSets, TLC

VARIABLES
    store,      \* the backing KV namespace: storage key -> stored text
    putNull,    \* what the namespace does with put(key, null): see kvPut
    calls,      \* how many calls the caller has made
    pc,         \* the caller: "idle", or "returned" from the call in last
    prev,       \* the store as it was when the call in last was made
    last,       \* the last call: its name, arguments and outcome
    visited,    \* the (path, depth) pairs the last traverse handed its visitor
    rMax,       \* withRetry: this.maxRetries
    rScript,    \* withRetry: the outcome of each invocation of the operation
    rAttempt,   \* withRetry: the loop variable attempt
    rCalls,     \* withRetry: invocations of the operation so far
    rSleeps,    \* withRetry: calls of sleep so far
    rPc,        \* withRetry: "loop", "returned" or "threw"
    rOut,       \* withRetry: what was returned or thrown
    procs,      \* concurrent callers: each one's pending frames, log and call
    faults      \* store calls that have failed so far

vars == <<store, putNull, calls, pc, prev, last, visited,
          rMax, rScript, rAttempt, rCalls, rSleeps, rPc, rOut, procs, faults>>

stepVars == <<procs, faults>>
treeVars == <<store, putNull, calls, pc, prev, last, visited, stepVars>>
retryVars == <<rMax, rScript, rAttempt, rCalls, rSleeps, rPc, rOut>>

----------------------------------------------------------------------------
(* Bounds of the model *)

MaxDepth == 2          \* longest path a call is given or creates
MaxCalls == 4          \* calls the caller makes
MaxRetriesBound == 3   \* largest maxRetries tried
MaxTraverseDepth == 1  \* largest maxDepth option tried

Segs == {"a", "b"}
Values == {"v", "w"}

----------------------------------------------------------------------------
(* JavaScript values and the texts the store holds *)

JSnull == [t |-> "null"]
JSstr(x) == [t |-> "str", s |-> x]
JSlist(q) == [t |-> "list", l |-> q]

\* JSON.stringify(v): the JSON text denoting v
JsonText(v) == [json |-> v]

RECURSIVE Join(_, _)
Join(q, sep) ==
    IF q = <<>> THEN ""
    ELSE IF Len(q) = 1 THEN q[1]
    ELSE q[1] \o sep \o Join(Tail(q), sep)

\* SHA-256 and its hex rendering, taken to be injective on the input string
Digest(str) == "sha(" \o str \o ")"

hashPath(pathArray) == Digest(Join(pathArray, "::"))

globalPrefix == "tree"

createStorageKey(pathArray, suffix) ==
    globalPrefix \o "-" \o hashPath(pathArray) \o "-" \o suffix

serializeValue(value) ==
    IF value = JSnull THEN JSnull ELSE JsonText(value)

deserializeValue(serialized) ==
    IF serialized = JSnull THEN JSnull ELSE serialized.json

\* deserializeValue(x) || []  as a sequence of segments
OrEmpty(serialized) ==
    IF deserializeValue(serialized) = JSnull THEN <<>>
    ELSE deserializeValue(serialized).l

----------------------------------------------------------------------------
(* The backing store: get, put, delete on independent flat keys *)

Ok(st) == [st |-> st, err |-> "none"]
Fail(st, e) == [st |-> st, err |-> e]

kvGet(st, key) == IF key \in DOMAIN st THEN st[key] ELSE JSnull

kvWrite(st, key, text) ==
    [x \in DOMAIN st \cup {key} |-> IF x = key THEN text ELSE st[x]]

kvDelete(st, key) == [x \in DOMAIN st \ {key} |-> st[x]]

\* put(key, value). serializeValue hands the store null for a null value, which
\* the store's contract (put(key, string)) does not cover: the namespace
\* rejects it with a TypeError, or stores String(null), or keeps null so that
\* get returns null again.
kvPut(st, key, value) ==
    IF value # JSnull THEN Ok(kvWrite(st, key, value))
    ELSE CASE putNull = "reject" -> Fail(st, "TypeError")
           [] putNull = "coerce" -> Ok(kvWrite(st, key, JsonText(JSnull)))
           [] OTHER -> Ok(kvDelete(st, key))

----------------------------------------------------------------------------
(* Paths *)

parentOf(pathArray) == SubSeq(pathArray, 1, Len(pathArray) - 1)
lastSeg(pathArray) == pathArray[Len(pathArray)]

IsPrefix(p, q) == Len(p) <= Len(q) /\ SubSeq(q, 1, Len(p)) = p

RECURSIVE PathsUpTo(_)
PathsUpTo(n) ==
    IF n = 0 THEN {<<>>}
    ELSE PathsUpTo(n - 1) \cup
         {Append(p, s) : p \in {q \in PathsUpTo(n - 1) : Len(q) = n - 1}, s \in Segs}

Paths == PathsUpTo(MaxDepth)

InputValues == {JSnull} \cup {JSstr(x) : x \in Values}

----------------------------------------------------------------------------
(* NodeStore *)

nodeExists(st, pathArray) ==
    kvGet(st, createStorageKey(pathArray, "value")) # JSnull

\* as addChildToParent, without the write of the extended list
addChildToParentUnwritten(st, parentPath, childKey) == Ok(st)

addChildToParent(st, parentPath, childKey) ==
    LET childrenKey == createStorageKey(parentPath, "children")
        currentChildren == OrEmpty(kvGet(st, childrenKey))
    IN  IF \E i \in 1..Len(currentChildren) : currentChildren[i] = childKey
        THEN Ok(st)
        ELSE kvPut(st, childrenKey,
                   serializeValue(JSlist(Append(currentChildren, childKey))))

removeChildFromParent(st, parentPath, childKey) ==
    LET childrenKey == createStorageKey(parentPath, "children")
        currentChildren == OrEmpty(kvGet(st, childrenKey))
        updatedChildren == SelectSeq(currentChildren, LAMBDA key : key # childKey)
    IN  kvPut(st, childrenKey, serializeValue(JSlist(updatedChildren)))

\* The body createNode hands to withRetry: value, parent pointer, empty
\* children list, link into the parent. A throw ends it where it stands.
createNodeWrites(st, pathArray, value) ==
    LET r1 == kvPut(st, createStorageKey(pathArray, "value"), serializeValue(value))
        r2 == IF Len(pathArray) > 0
              THEN kvPut(r1.st, createStorageKey(pathArray, "parent"),
                         serializeValue(JSlist(parentOf(pathArray))))
              ELSE r1
        r3 == kvPut(r2.st, createStorageKey(pathArray, "children"),
                    serializeValue(JSlist(<<>>)))
    IN  IF r1.err # "none" THEN r1
        ELSE IF r2.err # "none" THEN r2
        ELSE IF r3.err # "none" THEN r3
        ELSE IF Len(pathArray) > 0
             THEN addChildToParent(r3.st, parentOf(pathArray), lastSeg(pathArray))
             ELSE r3

\* as createNode, without the check of the parent
createNodeUnchecked(st, pathArray, value) ==
    IF Len(pathArray) = 0 /\ nodeExists(st, <<>>)
    THEN Fail(st, "AlreadyExists")
    ELSE createNodeWrites(st, pathArray, value)

createNode(st, pathArray, value) ==
    IF Len(pathArray) = 0 /\ nodeExists(st, <<>>)
    THEN Fail(st, "AlreadyExists")
    ELSE IF Len(pathArray) > 0 /\ ~nodeExists(st, parentOf(pathArray))
    THEN Fail(st, "ParentMissing")
    ELSE createNodeWrites(st, pathArray, value)

initializeRoot(st) ==
    IF ~nodeExists(st, <<>>) THEN createNode(st, <<>>, JSnull) ELSE Ok(st)

getValue(st, pathArray) ==
    LET serializedValue == kvGet(st, createStorageKey(pathArray, "value"))
    IN  IF serializedValue = JSnull
        THEN [val |-> JSnull, err |-> "NotFound"]
        ELSE [val |-> deserializeValue(serializedValue), err |-> "none"]

\* as setValue, without the check that the node exists
setValueUnchecked(st, pathArray, value) ==
    kvPut(st, createStorageKey(pathArray, "value"), serializeValue(value))

setValue(st, pathArray, value) ==
    IF ~nodeExists(st, pathArray) THEN Fail(st, "NotFound")
    ELSE kvPut(st, createStorageKey(pathArray, "value"), serializeValue(value))

getChildren(st, pathArray) ==
    LET serializedChildren == kvGet(st, createStorageKey(pathArray, "children"))
    IN  IF serializedChildren = JSnull
        THEN [val |-> <<>>, err |-> "NotFound"]
        ELSE [val |-> OrEmpty(serializedChildren), err |-> "none"]

getNode(st, pathArray) ==
    LET value == getValue(st, pathArray)
        children == getChildren(st, pathArray)
    IN  [path |-> pathArray, value |-> value.val, children |-> children.val,
         err |-> IF value.err # "none" THEN value.err ELSE children.err]

----------------------------------------------------------------------------
(* TreeOps: delete *)

\* as Reverse, the order kept
Unreversed(q) == q

Reverse(q) == [i \in 1..Len(q) |-> q[Len(q) + 1 - i]]

\* The while loop of collectDescendants: queue.shift(), then the children of
\* the path taken are appended to both lists; a getChildren that throws is
\* skipped.
RECURSIVE collectLoop(_, _, _)
collectLoop(st, queue, descendants) ==
    IF queue = <<>> THEN descendants
    ELSE LET currentPath == Head(queue)
             children == getChildren(st, currentPath)
             childPaths == [i \in 1..Len(children.val) |->
                               Append(currentPath, children.val[i])]
         IN  IF children.err # "none"
             THEN collectLoop(st, Tail(queue), descendants)
             ELSE collectLoop(st, Tail(queue) \o childPaths, descendants \o childPaths)

collectDescendants(st, pathArray) == collectLoop(st, <<pathArray>>, <<>>)

deleteSingleNode(st, pathArray) ==
    LET s1 == kvDelete(st, createStorageKey(pathArray, "value"))
        s2 == kvDelete(s1, createStorageKey(pathArray, "children"))
    IN  IF Len(pathArray) > 0
        THEN kvDelete(s2, createStorageKey(pathArray, "parent"))
        ELSE s2

RECURSIVE deleteAll(_, _)
deleteAll(st, allPaths) ==
    IF allPaths = <<>> THEN st
    ELSE deleteAll(deleteSingleNode(st, Head(allPaths)), Tail(allPaths))

deleteNode(st, pathArray) ==
    IF Len(pathArray) = 0 THEN Fail(st, "InvalidOperation")
    ELSE IF ~nodeExists(st, pathArray) THEN Fail(st, "NotFound")
    ELSE LET descendantPaths == collectDescendants(st, pathArray)
             allPaths == Reverse(<<pathArray>> \o descendantPaths)
             deleted == deleteAll(st, allPaths)
             r == removeChildFromParent(deleted, parentOf(pathArray), lastSeg(pathArray))
         IN  IF r.err # "none" THEN Fail(r.st, "DeleteFailed") ELSE r

----------------------------------------------------------------------------
(* TreeOps: move *)

\* copySubtree and its loop over sourceNode.children. A destination longer than
\* MaxDepth is outside the model ("overflow"); the recursion into a strict
\* descendant of the source, which copies what it has just created and never
\* returns, is outside it for every MaxDepth.
RECURSIVE copySubtree(_, _, _, _)
RECURSIVE copyChildren(_, _, _, _)
copySubtree(st, sourcePath, targetParentPath, newKey) ==
    LET sourceNode == getNode(st, sourcePath)
        newPath == Append(targetParentPath, newKey)
        created == createNode(st, newPath, sourceNode.value)
    IN  IF sourceNode.err # "none" THEN Fail(st, sourceNode.err)
        ELSE IF Len(newPath) > MaxDepth THEN Fail(st, "overflow")
        ELSE IF created.err # "none" THEN created
        ELSE copyChildren(created.st, sourcePath, newPath, sourceNode.children)

copyChildren(st, sourcePath, newPath, children) ==
    IF children = <<>> THEN Ok(st)
    ELSE LET r == copySubtree(st, Append(sourcePath, Head(children)),
                              newPath, Head(children))
         IN  IF r.err # "none" THEN r
             ELSE copyChildren(r.st, sourcePath, newPath, Tail(children))

\* The catch block of moveNode: deleteNode(newPath), its own error swallowed,
\* then the wrapped error.
moveCleanup(st, newPath) == Fail(deleteNode(st, newPath).st, "MoveFailed")

\* as moveNode, without the check that the destination is free
moveNodeOntoExisting(st, sourcePath, targetParentPath, newKey) ==
    LET newPath == Append(targetParentPath, newKey)
        copied == copySubtree(st, sourcePath, targetParentPath, newKey)
        removed == deleteNode(copied.st, sourcePath)
    IN  IF Len(sourcePath) = 0 THEN Fail(st, "InvalidOperation")
        ELSE IF ~nodeExists(st, sourcePath) THEN Fail(st, "NotFound")
        ELSE IF ~nodeExists(st, targetParentPath) THEN Fail(st, "ParentMissing")
        ELSE IF copied.err = "overflow" THEN copied
        ELSE IF copied.err # "none" THEN moveCleanup(copied.st, newPath)
        ELSE IF removed.err # "none" THEN moveCleanup(removed.st, newPath)
        ELSE removed

moveNode(st, sourcePath, targetParentPath, newKey) ==
    LET newPath == Append(targetParentPath, newKey)
        copied == copySubtree(st, sourcePath, targetParentPath, newKey)
        removed == deleteNode(copied.st, sourcePath)
    IN  IF Len(sourcePath) = 0 THEN Fail(st, "InvalidOperation")
        ELSE IF ~nodeExists(st, sourcePath) THEN Fail(st, "NotFound")
        ELSE IF ~nodeExists(st, targetParentPath) THEN Fail(st, "ParentMissing")
        ELSE IF nodeExists(st, newPath) THEN Fail(st, "AlreadyExists")
        ELSE IF copied.err = "overflow" THEN copied
        ELSE IF copied.err # "none" THEN moveCleanup(copied.st, newPath)
        ELSE IF removed.err # "none" THEN moveCleanup(removed.st, newPath)
        ELSE removed

----------------------------------------------------------------------------
(* TreeOps: traverse *)

Infinity == -1    \* the default of the maxDepth option

\* as Deeper, stopping at maxDepth itself
DeeperOrAt(depth, maxDepth) == maxDepth # Infinity /\ depth >= maxDepth

Deeper(depth, maxDepth) == maxDepth # Infinity /\ depth > maxDepth

\* A visitor: what it returns at each path
AlwaysContinue == [at |-> {}, ret |-> "true"]

\* The visitors tried: the one that always continues, and those that return
\* false, undefined or 0 at one path that can have children
Visitors ==
    {AlwaysContinue} \cup
    {[at |-> {q}, ret |-> r] : q \in {x \in Paths : Len(x) < MaxDepth},
                              r \in {"false", "undefined", "0"}}
callback(cb, pathArray) == IF pathArray \in cb.at THEN cb.ret ELSE "true"

Visit(pathArray, depth) == [path |-> pathArray, depth |-> depth]

RECURSIVE depthFirstTraverse(_, _, _, _, _)
RECURSIVE depthFirstChildren(_, _, _, _, _, _)
depthFirstTraverse(st, pathArray, cb, maxDepth, currentDepth) ==
    LET node == getNode(st, pathArray)
    IN  IF Deeper(currentDepth, maxDepth) THEN [vis |-> <<>>, err |-> "none"]
        ELSE IF node.err # "none" THEN [vis |-> <<>>, err |-> node.err]
        ELSE IF callback(cb, pathArray) = "false"
             THEN [vis |-> <<Visit(pathArray, currentDepth)>>, err |-> "none"]
        ELSE LET rest == depthFirstChildren(st, pathArray, node.children, cb,
                                            maxDepth, currentDepth)
             IN  [vis |-> <<Visit(pathArray, currentDepth)>> \o rest.vis,
                  err |-> rest.err]

depthFirstChildren(st, pathArray, children, cb, maxDepth, currentDepth) ==
    IF children = <<>> THEN [vis |-> <<>>, err |-> "none"]
    ELSE LET first == depthFirstTraverse(st, Append(pathArray, Head(children)), cb,
                                         maxDepth, currentDepth + 1)
             rest == depthFirstChildren(st, pathArray, Tail(children), cb,
                                        maxDepth, currentDepth)
         IN  IF first.err # "none" THEN first
             ELSE [vis |-> first.vis \o rest.vis, err |-> rest.err]

RECURSIVE breadthFirstLoop(_, _, _, _, _)
breadthFirstLoop(st, queue, cb, maxDepth, vis) ==
    IF queue = <<>> THEN [vis |-> vis, err |-> "none"]
    ELSE LET path == Head(queue).path
             depth == Head(queue).depth
             node == getNode(st, path)
             childItems == [i \in 1..Len(node.children) |->
                               Visit(Append(path, node.children[i]), depth + 1)]
         IN  IF Deeper(depth, maxDepth)
             THEN breadthFirstLoop(st, Tail(queue), cb, maxDepth, vis)
             ELSE IF node.err # "none" THEN [vis |-> vis, err |-> node.err]
             ELSE IF callback(cb, path) = "false"
                  THEN breadthFirstLoop(st, Tail(queue), cb, maxDepth,
                                        Append(vis, Visit(path, depth)))
             ELSE breadthFirstLoop(st, Tail(queue) \o childItems, cb, maxDepth,
                                   Append(vis, Visit(path, depth)))

breadthFirstTraverse(st, pathArray, cb, maxDepth) ==
    breadthFirstLoop(st, <<Visit(pathArray, 0)>>, cb, maxDepth, <<>>)

traverse(st, pathArray, cb, strategy, maxDepth) ==
    IF ~nodeExists(st, pathArray) THEN [vis |-> <<>>, err |-> "NotFound"]
    ELSE IF strategy = "breadth-first"
         THEN breadthFirstTraverse(st, pathArray, cb, maxDepth)
         ELSE depthFirstTraverse(st, pathArray, cb, maxDepth, 0)

----------------------------------------------------------------------------
(* TreeOps: statistics, batch creation, export and import *)

\* what the visitor of getStats has counted after the visits in vis
RECURSIVE countVisits(_, _, _)
countVisits(st, vis, stats) ==
    IF vis = <<>> THEN stats
    ELSE LET node == getNode(st, Head(vis).path)
             depth == Head(vis).depth
         IN  countVisits(st, Tail(vis),
                 [nodeCount |-> stats.nodeCount + 1,
                  leafCount |-> IF Len(node.children) = 0
                                THEN stats.leafCount + 1 ELSE stats.leafCount,
                  maxDepth |-> IF depth > stats.maxDepth
                               THEN depth ELSE stats.maxDepth])

\* as getStats, the depth limited to that of the children of the start
getStatsOfChildren(st, pathArray) ==
    LET r == traverse(st, pathArray, AlwaysContinue, "depth-first", 1)
        stats == countVisits(st, r.vis,
                             [nodeCount |-> 0, leafCount |-> 0, maxDepth |-> 0])
    IN  [nodeCount |-> stats.nodeCount,
         leafCount |-> stats.leafCount,
         internalNodeCount |-> stats.nodeCount - stats.leafCount,
         maxDepth |-> stats.maxDepth,
         err |-> r.err]

\* getStats: a depth-first traversal without a depth limit, whose visitor
\* counts (the estimated size, a sum of the lengths of the values' JSON texts,
\* is left out)
getStats(st, pathArray) ==
    LET r == traverse(st, pathArray, AlwaysContinue, "depth-first", Infinity)
        stats == countVisits(st, r.vis,
                             [nodeCount |-> 0, leafCount |-> 0, maxDepth |-> 0])
    IN  [nodeCount |-> stats.nodeCount,
         leafCount |-> stats.leafCount,
         internalNodeCount |-> stats.nodeCount - stats.leafCount,
         maxDepth |-> stats.maxDepth,
         err |-> r.err]

\* nodeSpecs.sort((a, b) => a.path.length - b.path.length): stable, the specs
\* of one length keep their order
RECURSIVE sortedFrom(_, _)
sortedFrom(nodeSpecs, length) ==
    IF \A j \in 1..Len(nodeSpecs) : Len(nodeSpecs[j].path) < length THEN <<>>
    ELSE SelectSeq(nodeSpecs, LAMBDA spec : Len(spec.path) = length)
         \o sortedFrom(nodeSpecs, length + 1)

sortedSpecs(nodeSpecs) == sortedFrom(nodeSpecs, 0)

\* the for loop of batchCreateNodes: the first createNode that throws ends it
RECURSIVE createEach(_, _)
createEach(st, specs) ==
    IF specs = <<>> THEN Ok(st)
    ELSE LET r == createNode(st, Head(specs).path, Head(specs).value)
         IN  IF r.err # "none" THEN r ELSE createEach(r.st, Tail(specs))

\* as batchCreateNodes, the specs taken in the order given
batchCreateNodesUnsorted(st, nodeSpecs) == createEach(st, nodeSpecs)

batchCreateNodes(st, nodeSpecs) == createEach(st, sortedSpecs(nodeSpecs))

\* exportTree: { value, children: { key: exported child } }, the children
\* object as the sequence of its entries
RECURSIVE exportTree(_, _)
RECURSIVE exportChildren(_, _, _)
exportTree(st, pathArray) ==
    LET node == getNode(st, pathArray)
        children == exportChildren(st, pathArray, node.children)
    IN  IF node.err # "none"
        THEN [data |-> [value |-> JSnull, children |-> <<>>], err |-> node.err]
        ELSE [data |-> [value |-> node.value, children |-> children.entries],
              err |-> children.err]

exportChildren(st, pathArray, children) ==
    IF children = <<>> THEN [entries |-> <<>>, err |-> "none"]
    ELSE LET first == exportTree(st, Append(pathArray, Head(children)))
             rest == exportChildren(st, pathArray, Tail(children))
         IN  IF first.err # "none" THEN [entries |-> <<>>, err |-> first.err]
             ELSE [entries |-> <<[key |-> Head(children), data |-> first.data]>>
                               \o rest.entries,
                   err |-> rest.err]

\* importTree: the root through initializeRoot and setValue, every other node
\* through createNode, then the entries of treeData.children in their order
RECURSIVE importTree(_, _, _)
RECURSIVE importChildren(_, _, _)
importTree(st, treeData, pathArray) ==
    LET root == initializeRoot(st)
        rootSet == setValue(root.st, <<>>, treeData.value)
        created == IF Len(pathArray) = 0
                   THEN IF root.err # "none" THEN root ELSE rootSet
                   ELSE createNode(st, pathArray, treeData.value)
    IN  IF created.err # "none" THEN created
        ELSE importChildren(created.st, treeData.children, pathArray)

importChildren(st, entries, pathArray) ==
    IF entries = <<>> THEN Ok(st)
    ELSE LET r == importTree(st, Head(entries).data,
                             Append(pathArray, Head(entries).key))
         IN  IF r.err # "none" THEN r
             ELSE importChildren(r.st, Tail(entries), pathArray)

----------------------------------------------------------------------------
(* RetryExecutor *)

DefaultMaxRetries == 5

\* constructor: this.maxRetries = options.maxRetries || 5
maxRetriesOf(option) == IF option = 0 THEN DefaultMaxRetries ELSE option

\* The errors an operation is scripted to throw; status 0 stands for an error
\* that carries no status.
PlainError == [status |-> 0, name |-> "Error", timeout |-> FALSE]
Errors ==
    { PlainError,
      [status |-> 404, name |-> "Error", timeout |-> FALSE],
      [status |-> 429, name |-> "Error", timeout |-> FALSE],
      [status |-> 503, name |-> "Error", timeout |-> FALSE],
      [status |-> 0, name |-> "NetworkError", timeout |-> FALSE],
      [status |-> 0, name |-> "Error", timeout |-> TRUE] }

Success == [status |-> 200, name |-> "ok", timeout |-> FALSE]
Outcomes == Errors \cup {Success}

\* as isRetryableError, with every client error status taken for retryable
isRetryableErrorAnyStatus(error) ==
    \/ error.status >= 400
    \/ error.name = "NetworkError"
    \/ error.timeout

isRetryableError(error) ==
    \/ error.status = 429
    \/ error.status >= 500
    \/ error.name = "NetworkError"
    \/ error.timeout

\* as retryAgain, giving up one attempt early
retryAgainOneShort(error, attempt, maxRetries) ==
    isRetryableError(error) /\ attempt < maxRetries - 2

\* the test that guards the sleep: retryable, and not the last attempt
retryAgain(error, attempt, maxRetries) ==
    isRetryableError(error) /\ attempt < maxRetries - 1

RECURSIVE SeqsOf(_, _)
SeqsOf(S, n) ==
    IF n = 0 THEN {<<>>}
    ELSE {Append(q, x) : q \in SeqsOf(S, n - 1), x \in S}

\* kv.get(key) by a namespace that answers or raises: outcome is Success or
\* the error raised
kvGetOutcome(st, key, outcome) ==
    IF outcome = Success THEN [val |-> kvGet(st, key), threw |-> FALSE]
    ELSE [val |-> JSnull, threw |-> TRUE]

\* as nodeExistsCaught, the get made through withRetry and nothing caught, as
\* getValue makes it: an error that persists is retried and then thrown
nodeExistsRetried(st, pathArray, outcome) ==
    LET value == kvGetOutcome(st, createStorageKey(pathArray, "value"), outcome)
    IN  IF value.threw
        THEN [ret |-> FALSE, err |-> "Thrown",
              gets |-> IF isRetryableError(outcome) THEN DefaultMaxRetries ELSE 1]
        ELSE [ret |-> value.val # JSnull, err |-> "none", gets |-> 1]

\* nodeExists with its try and catch: one get, outside withRetry; whatever the
\* get raises is caught and answered with false
nodeExistsCaught(st, pathArray, outcome) ==
    LET value == kvGetOutcome(st, createStorageKey(pathArray, "value"), outcome)
    IN  IF value.threw
        THEN [ret |-> FALSE, err |-> "none", gets |-> 1]
        ELSE [ret |-> value.val # JSnull, err |-> "none", gets |-> 1]

\* the sequences over S of length n at most
SeqsUpTo(S, n) == UNION {SeqsOf(S, k) : k \in 0..n}

ScriptLen(option) == IF maxRetriesOf(option) > 0 THEN maxRetriesOf(option) ELSE 1

NoCall == [op |-> "none", p |-> <<>>, v |-> JSnull, t |-> <<>>, k |-> "",
           strategy |-> "", maxDepth |-> Infinity, cb |-> AlwaysContinue,
           err |-> "none"]
EmptyStore == [x \in {} |-> JSnull]

\* The tree is left alone while withRetry is studied on its own
InitRetry ==
    /\ \E option \in {-1, 0} \cup (1..MaxRetriesBound) :
          /\ rMax = maxRetriesOf(option)
          /\ rScript \in SeqsOf(Outcomes, ScriptLen(option))
    /\ rAttempt = 0
    /\ rCalls = 0
    /\ rSleeps = 0
    /\ rPc = "loop"
    /\ rOut = [kind |-> "none", error |-> PlainError]
    /\ procs = <<>>
    /\ faults = 0
    /\ store = EmptyStore
    /\ putNull = "coerce"
    /\ calls = 0
    /\ pc = "idle"
    /\ prev = EmptyStore
    /\ last = NoCall
    /\ visited = <<>>

\* One iteration of the for loop whose operation returns
RetryReturn ==
    /\ rPc = "loop"
    /\ rAttempt < rMax
    /\ rScript[rCalls + 1] = Success
    /\ rCalls' = rCalls + 1
    /\ rPc' = "returned"
    /\ rOut' = [kind |-> "result", error |-> PlainError]
    /\ UNCHANGED <<rMax, rScript, rAttempt, rSleeps>>
    /\ UNCHANGED treeVars

\* One iteration whose operation throws and which sleeps and continues
RetrySleep ==
    /\ rPc = "loop"
    /\ rAttempt < rMax
    /\ rScript[rCalls + 1] # Success
    /\ retryAgain(rScript[rCalls + 1], rAttempt, rMax)
    /\ rCalls' = rCalls + 1
    /\ rSleeps' = rSleeps + 1
    /\ rAttempt' = rAttempt + 1
    /\ UNCHANGED <<rMax, rScript, rPc, rOut>>
    /\ UNCHANGED treeVars

\* One iteration whose operation throws and which rethrows the error
RetryThrow ==
    /\ rPc = "loop"
    /\ rAttempt < rMax
    /\ rScript[rCalls + 1] # Success
    /\ ~retryAgain(rScript[rCalls + 1], rAttempt, rMax)
    /\ rCalls' = rCalls + 1
    /\ rPc' = "threw"
    /\ rOut' = [kind |-> "bare", error |-> rScript[rCalls + 1]]
    /\ UNCHANGED <<rMax, rScript, rAttempt, rSleeps>>
    /\ UNCHANGED treeVars

\* The statement after the loop. The loop is left only without an iteration
\* (maxRetries < 1), lastError is then undefined and reading its message throws
\* a TypeError; with an error caught the statement would throw the wrapped
\* "<context> failed after <maxRetries> attempts: <message>".
RetryAfterLoop ==
    /\ rPc = "loop"
    /\ rAttempt >= rMax
    /\ rPc' = "threw"
    /\ rOut' = IF rCalls = 0
               THEN [kind |-> "TypeError", error |-> PlainError]
               ELSE [kind |-> "wrapped", error |-> rScript[rCalls]]
    /\ UNCHANGED <<rMax, rScript, rAttempt, rCalls, rSleeps>>
    /\ UNCHANGED treeVars

NextRetry == RetryReturn \/ RetrySleep \/ RetryThrow \/ RetryAfterLoop

SpecRetry == InitRetry /\ [][NextRetry]_vars

----------------------------------------------------------------------------
(* PathParser (src/src/pathparser.js). A string is the sequence of its     *)
(* UTF-16 code units, a character is its code.                              *)

EscapeMethod ==
    {"BACKSLASH_ESCAPES", "HTML_NAMED_ENTITIES", "HTML_NUMERIC_ENTITIES",
     "CUSTOM_UNICODE_ENTITIES", "URL_ENCODING"}

\* the printable ASCII characters in the order of their codes, from 32 (the
\* grave accent, 96, by its name)
Printable ==
    <<" ", "!", "\"", "#", "$", "%", "&", "'", "(", ")", "*", "+", ",", "-", ".", "/",
      "0", "1", "2", "3", "4", "5", "6", "7", "8", "9", ":", ";", "<", "=", ">", "?",
      "@", "A", "B", "C", "D", "E", "F", "G", "H", "I", "J", "K", "L", "M", "N", "O",
      "P", "Q", "R", "S", "T", "U", "V", "W", "X", "Y", "Z", "[", "\\", "]", "^", "_",
      "grave", "a", "b", "c", "d", "e", "f", "g", "h", "i", "j", "k", "l", "m", "n", "o",
      "p", "q", "r", "s", "t", "u", "v", "w", "x", "y", "z", "{", "|", "}", "~">>

charCodeAt(c) == 31 + (CHOOSE i \in 1..Len(Printable) : Printable[i] = c)

\* the string written with the characters q
Lit(q) == [i \in 1..Len(q) |-> charCodeAt(q[i])]

LF == 10
TAB == 9
CR == 13

Digits == 48..57
HexDigits == Digits \cup (65..70) \cup (97..102)
Letters == (65..90) \cup (97..122)

\* s[i], or -1 past the end of s
At(s, i) == IF i \in 1..Len(s) THEN s[i] ELSE -1

\* the length of the longest run of characters of class in s from index i on
RECURSIVE RunLen(_, _, _)
RunLen(s, i, class) ==
    IF At(s, i) \in class THEN 1 + RunLen(s, i + 1, class) ELSE 0

DigitValue(c) ==
    IF c \in Digits THEN c - 48 ELSE IF c \in 65..70 THEN c - 55 ELSE c - 87

RECURSIVE parseInt(_, _)
parseInt(digits, radix) ==
    IF digits = <<>> THEN 0
    ELSE parseInt(SubSeq(digits, 1, Len(digits) - 1), radix) * radix
         + DigitValue(digits[Len(digits)])

\* String.fromCodePoint: a RangeError past U+10FFFF, a surrogate pair past
\* U+FFFF
fromCodePoint(codePoint) ==
    IF codePoint > 1114111 THEN [ok |-> FALSE, s |-> <<>>]
    ELSE IF codePoint > 65535
    THEN [ok |-> TRUE, s |-> <<55296 + ((codePoint - 65536) \div 1024),
                               56320 + ((codePoint - 65536) % 1024)>>]
    ELSE [ok |-> TRUE, s |-> <<codePoint>>]

\* this.htmlEntities
htmlEntities ==
    { <<Lit(<<"a", "m", "p">>), 38>>,
      <<Lit(<<"l", "t">>), 60>>,
      <<Lit(<<"g", "t">>), 62>>,
      <<Lit(<<"q", "u", "o", "t">>), 34>>,
      <<Lit(<<"a", "p", "o", "s">>), 39>>,
      <<Lit(<<"n", "b", "s", "p">>), 160>>,
      <<Lit(<<"c", "o", "p", "y">>), 169>>,
      <<Lit(<<"r", "e", "g">>), 174>>,
      <<Lit(<<"t", "r", "a", "d", "e">>), 8482>>,
      <<Lit(<<"h", "e", "l", "l", "i", "p">>), 8230>>,
      <<Lit(<<"m", "d", "a", "s", "h">>), 8212>>,
      <<Lit(<<"n", "d", "a", "s", "h">>), 8211>>,
      <<Lit(<<"l", "s", "q", "u", "o">>), 39>>,
      <<Lit(<<"r", "s", "q", "u", "o">>), 39>>,
      <<Lit(<<"l", "d", "q", "u", "o">>), 34>>,
      <<Lit(<<"r", "d", "q", "u", "o">>), 34>>,
      <<Lit(<<"b", "u", "l", "l">>), 8226>>,
      <<Lit(<<"d", "e", "g">>), 176>>,
      <<Lit(<<"p", "l", "u", "s", "m", "n">>), 177>>,
      <<Lit(<<"t", "i", "m", "e", "s">>), 215>>,
      <<Lit(<<"d", "i", "v", "i", "d", "e">>), 247>> }

\* What one turn of the scanning loop of parsePath does at index i: the
\* characters it adds to the current component and the characters it consumes
Scanned(add, used) == [add |-> add, used |-> used, matched |-> TRUE]
Unmatched == [add |-> <<>>, used |-> 0, matched |-> FALSE]

\* the branch of a backslash, BACKSLASH_ESCAPES enabled
backslashEscape(s, i) ==
    LET nextChar == At(s, i + 1)
        hexStr == SubSeq(s, i + 2, i + 3)
    IN  IF i >= Len(s) THEN Scanned(<<s[i]>>, 1)
        ELSE IF nextChar = charCodeAt("n") THEN Scanned(<<LF>>, 2)
        ELSE IF nextChar = charCodeAt("t") THEN Scanned(<<TAB>>, 2)
        ELSE IF nextChar = charCodeAt("r") THEN Scanned(<<CR>>, 2)
        ELSE IF nextChar = charCodeAt("\\") THEN Scanned(<<charCodeAt("\\")>>, 2)
        ELSE IF nextChar = charCodeAt("/") THEN Scanned(<<charCodeAt("/")>>, 2)
        ELSE IF nextChar = charCodeAt("x")
        THEN IF i + 3 <= Len(s) /\ \A j \in 1..2 : hexStr[j] \in HexDigits
             THEN Scanned(<<parseInt(hexStr, 16)>>, 4)
             ELSE Scanned(<<nextChar>>, 2)
        ELSE Scanned(<<nextChar>>, 2)

\* remaining.match(/^&([a-zA-Z][a-zA-Z0-9]*);/) and the look-up of the name
namedEntity(s, i) ==
    LET n == RunLen(s, i + 1, Letters \cup Digits)
        name == SubSeq(s, i + 1, i + n)
    IN  IF /\ At(s, i + 1) \in Letters
           /\ At(s, i + 1 + n) = charCodeAt(";")
           /\ \E e \in htmlEntities : e[1] = name
        THEN Scanned(<<(CHOOSE e \in htmlEntities : e[1] = name)[2]>>, n + 2)
        ELSE Unmatched

\* remaining.match(/^&#x([0-9a-fA-F]+);/), then /^&#([0-9]+);/
numericEntity(s, i) ==
    LET nHex == RunLen(s, i + 3, HexDigits)
        hex == fromCodePoint(parseInt(SubSeq(s, i + 3, i + 2 + nHex), 16))
        nDec == RunLen(s, i + 2, Digits)
        dec == fromCodePoint(parseInt(SubSeq(s, i + 2, i + 1 + nDec), 10))
    IN  IF /\ At(s, i + 1) = charCodeAt("#")
           /\ At(s, i + 2) = charCodeAt("x")
           /\ nHex >= 1
           /\ At(s, i + 3 + nHex) = charCodeAt(";")
           /\ hex.ok
        THEN Scanned(hex.s, nHex + 4)
        ELSE IF /\ At(s, i + 1) = charCodeAt("#")
                /\ nDec >= 1
                /\ At(s, i + 2 + nDec) = charCodeAt(";")
                /\ dec.ok
        THEN Scanned(dec.s, nDec + 3)
        ELSE Unmatched

\* remaining.match(/^&u([0-9a-fA-F]{2,8});/)
customEntity(s, i) ==
    LET n == RunLen(s, i + 2, HexDigits)
        unicode == fromCodePoint(parseInt(SubSeq(s, i + 2, i + 1 + n), 16))
    IN  IF /\ At(s, i + 1) = charCodeAt("u")
           /\ n \in 2..8
           /\ At(s, i + 2 + n) = charCodeAt(";")
           /\ unicode.ok
        THEN Scanned(unicode.s, n + 3)
        ELSE Unmatched

\* the branch of an ampersand, some entity method enabled: named, then
\* numeric, then custom, the first that matches; else the ampersand itself
entity(s, i, enabledMethods) ==
    LET named == IF "HTML_NAMED_ENTITIES" \in enabledMethods
                 THEN namedEntity(s, i) ELSE Unmatched
        numeric == IF "HTML_NUMERIC_ENTITIES" \in enabledMethods
                   THEN numericEntity(s, i) ELSE Unmatched
        custom == IF "CUSTOM_UNICODE_ENTITIES" \in enabledMethods
                  THEN customEntity(s, i) ELSE Unmatched
    IN  IF named.matched THEN named
        ELSE IF numeric.matched THEN numeric
        ELSE IF custom.matched THEN custom
        ELSE Scanned(<<s[i]>>, 1)

\* as urlEscape, asking for one character more behind the two hex digits
urlEscapeShort(s, i) ==
    LET hexStr == SubSeq(s, i + 1, i + 2)
    IN  IF i + 3 <= Len(s) /\ \A j \in 1..2 : hexStr[j] \in HexDigits
        THEN Scanned(<<parseInt(hexStr, 16)>>, 3)
        ELSE Scanned(<<s[i]>>, 1)

\* the branch of a percent sign, URL_ENCODING enabled
urlEscape(s, i) ==
    LET hexStr == SubSeq(s, i + 1, i + 2)
    IN  IF i + 2 <= Len(s) /\ \A j \in 1..2 : hexStr[j] \in HexDigits
        THEN Scanned(<<parseInt(hexStr, 16)>>, 3)
        ELSE Scanned(<<s[i]>>, 1)

\* the while loop of parsePath from index i on
RECURSIVE parseLoop(_, _, _, _, _)
parseLoop(s, i, components, currentComponent, enabledMethods) ==
    IF i > Len(s) THEN Append(components, currentComponent)
    ELSE LET char == s[i]
             step ==
                IF char = charCodeAt("\\") /\ "BACKSLASH_ESCAPES" \in enabledMethods
                THEN backslashEscape(s, i)
                ELSE IF /\ char = charCodeAt("&")
                        /\ enabledMethods \cap {"HTML_NAMED_ENTITIES",
                                                "HTML_NUMERIC_ENTITIES",
                                                "CUSTOM_UNICODE_ENTITIES"} # {}
                THEN entity(s, i, enabledMethods)
                ELSE IF char = charCodeAt("%") /\ "URL_ENCODING" \in enabledMethods
                THEN urlEscape(s, i)
                ELSE Scanned(<<char>>, 1)
         IN  IF char = charCodeAt("/")
             THEN parseLoop(s, i + 1, Append(components, currentComponent), <<>>,
                            enabledMethods)
             ELSE parseLoop(s, i + step.used, components,
                            currentComponent \o step.add, enabledMethods)

\* the filter that ends parsePath and opens createPath: the empty components
\* go, parsePath keeping one that is the only component
Filtered(components, keepSole) ==
    SelectSeq(components,
              LAMBDA component : component # <<>> \/ (keepSole /\ Len(components) = 1))

parsePath(pathString, enabledMethods) ==
    Filtered(parseLoop(pathString, 1, <<>>, <<>>, enabledMethods), TRUE)

\* Number.prototype.toString(radix).toUpperCase()
RECURSIVE numberToString(_, _)
numberToString(n, radix) ==
    LET digit == IF n % radix < 10 THEN 48 + (n % radix) ELSE 55 + (n % radix)
    IN  IF n < radix THEN <<digit>>
        ELSE Append(numberToString(n \div radix, radix), digit)

RECURSIVE padStart(_, _)
padStart(str, targetLength) ==
    IF Len(str) >= targetLength THEN str
    ELSE padStart(<<charCodeAt("0")>> \o str, targetLength)

\* TextEncoder.encode of one code unit: its UTF-8 bytes, those of U+FFFD for
\* a surrogate
stringToUtf8Bytes(char) ==
    IF char < 128 THEN <<char>>
    ELSE IF char < 2048 THEN <<192 + (char \div 64), 128 + (char % 64)>>
    ELSE IF char \in 55296..57343 THEN <<239, 191, 189>>
    ELSE <<224 + (char \div 4096), 128 + ((char \div 64) % 64), 128 + (char % 64)>>

RECURSIVE percentBytes(_)
percentBytes(bytes) ==
    IF bytes = <<>> THEN <<>>
    ELSE <<charCodeAt("%")>> \o padStart(numberToString(Head(bytes), 16), 2)
         \o percentBytes(Tail(bytes))

\* the first of the methods, in this order, that is enabled, or "none"
FirstEnabled(order, enabledMethods) ==
    IF \E j \in 1..Len(order) : order[j] \in enabledMethods
    THEN order[CHOOSE j \in 1..Len(order) :
                  /\ order[j] \in enabledMethods
                  /\ \A k \in 1..(j - 1) : order[k] \notin enabledMethods]
    ELSE "none"

\* the branches of encodePathComponent for slash, backslash, newline, tab and
\* return:
\* the backslash escape, the percent escape, the numeric entity or the
\* character
encodeSeparator(char, letter, enabledMethods) ==
    LET method == FirstEnabled(<<"BACKSLASH_ESCAPES", "URL_ENCODING",
                                 "HTML_NUMERIC_ENTITIES">>, enabledMethods)
    IN  CASE method = "BACKSLASH_ESCAPES" -> <<charCodeAt("\\"), charCodeAt(letter)>>
          [] method = "URL_ENCODING" ->
                <<charCodeAt("%")>> \o padStart(numberToString(char, 16), 2)
          [] method = "HTML_NUMERIC_ENTITIES" ->
                Lit(<<"&", "#">>) \o numberToString(char, 10) \o Lit(<<";">>)
          [] OTHER -> <<char>>

\* what encodePathComponent writes for one character
encodeChar(char, enabledMethods) ==
    IF char = charCodeAt("/") THEN encodeSeparator(char, "/", enabledMethods)
    ELSE IF char = charCodeAt("\\") THEN encodeSeparator(char, "\\", enabledMethods)
    ELSE IF char = LF THEN encodeSeparator(char, "n", enabledMethods)
    ELSE IF char = TAB THEN encodeSeparator(char, "t", enabledMethods)
    ELSE IF char = CR THEN encodeSeparator(char, "r", enabledMethods)
    ELSE IF char = charCodeAt("%")
    THEN LET method == FirstEnabled(<<"URL_ENCODING", "HTML_NUMERIC_ENTITIES",
                                      "BACKSLASH_ESCAPES">>, enabledMethods)
         IN  CASE method = "URL_ENCODING" -> Lit(<<"%", "2", "5">>)
               [] method = "HTML_NUMERIC_ENTITIES" -> Lit(<<"&", "#", "3", "7", ";">>)
               [] method = "BACKSLASH_ESCAPES" -> Lit(<<"\\", "%">>)
               [] OTHER -> <<char>>
    ELSE IF char = charCodeAt("&")
    THEN LET method == FirstEnabled(<<"HTML_NAMED_ENTITIES", "URL_ENCODING",
                                      "HTML_NUMERIC_ENTITIES", "BACKSLASH_ESCAPES">>,
                                    enabledMethods)
         IN  CASE method = "HTML_NAMED_ENTITIES" -> Lit(<<"&", "a", "m", "p", ";">>)
               [] method = "URL_ENCODING" -> Lit(<<"%", "2", "6">>)
               [] method = "HTML_NUMERIC_ENTITIES" -> Lit(<<"&", "#", "3", "8", ";">>)
               [] method = "BACKSLASH_ESCAPES" -> Lit(<<"\\", "&">>)
               [] OTHER -> <<char>>
    ELSE IF (char < 32 \/ char > 126) /\ char <= 255
    THEN LET method == FirstEnabled(<<"URL_ENCODING", "BACKSLASH_ESCAPES",
                                      "HTML_NUMERIC_ENTITIES",
                                      "CUSTOM_UNICODE_ENTITIES">>, enabledMethods)
         IN  CASE method = "URL_ENCODING" ->
                    <<charCodeAt("%")>> \o padStart(numberToString(char, 16), 2)
               [] method = "BACKSLASH_ESCAPES" ->
                    Lit(<<"\\", "x">>) \o padStart(numberToString(char, 16), 2)
               [] method = "HTML_NUMERIC_ENTITIES" ->
                    Lit(<<"&", "#">>) \o numberToString(char, 10) \o Lit(<<";">>)
               [] method = "CUSTOM_UNICODE_ENTITIES" ->
                    Lit(<<"&", "u">>) \o padStart(numberToString(char, 16), 2)
                    \o Lit(<<";">>)
               [] OTHER -> <<char>>
    ELSE IF char > 255
    THEN LET method == FirstEnabled(<<"HTML_NUMERIC_ENTITIES",
                                      "CUSTOM_UNICODE_ENTITIES", "URL_ENCODING">>,
                                    enabledMethods)
         IN  CASE method = "HTML_NUMERIC_ENTITIES" ->
                    Lit(<<"&", "#", "x">>) \o numberToString(char, 16) \o Lit(<<";">>)
               [] method = "CUSTOM_UNICODE_ENTITIES" ->
                    Lit(<<"&", "u">>) \o padStart(numberToString(char, 16), 4)
                    \o Lit(<<";">>)
               [] method = "URL_ENCODING" -> percentBytes(stringToUtf8Bytes(char))
               [] OTHER -> <<char>>
    ELSE <<char>>

RECURSIVE encodePathComponent(_, _)
encodePathComponent(component, enabledMethods) ==
    IF component = <<>> THEN <<>>
    ELSE encodeChar(Head(component), enabledMethods)
         \o encodePathComponent(Tail(component), enabledMethods)

\* Array.prototype.join('/')
RECURSIVE joinSlash(_)
joinSlash(strings) ==
    IF strings = <<>> THEN <<>>
    ELSE IF Len(strings) = 1 THEN strings[1]
    ELSE strings[1] \o <<charCodeAt("/")>> \o joinSlash(Tail(strings))

createPath(components, enabledMethods) ==
    LET filteredComponents == Filtered(components, FALSE)
    IN  joinSlash([j \in 1..Len(filteredComponents) |->
                      encodePathComponent(filteredComponents[j], enabledMethods)])

----------------------------------------------------------------------------
(* One caller, whole calls, a store that never fails *)

Call(op, p, v, t, k, err) ==
    [op |-> op, p |-> p, v |-> v, t |-> t, k |-> k,
     strategy |-> "", maxDepth |-> Infinity, cb |-> AlwaysContinue, err |-> err]

\* The caller starts on an empty namespace or on one that holds a root.
InitialStores ==
    {EmptyStore, createNodeWrites(EmptyStore, <<>>, JSstr("v")).st}

Init ==
    /\ putNull \in {"reject", "coerce", "absent"}
    /\ store \in InitialStores
    /\ calls = 0
    /\ pc = "idle"
    /\ prev = EmptyStore
    /\ last = NoCall
    /\ visited = <<>>
    /\ rMax = DefaultMaxRetries
    /\ rScript = <<>>
    /\ rAttempt = 0
    /\ rCalls = 0
    /\ rSleeps = 0
    /\ rPc = "returned"
    /\ rOut = [kind |-> "none", error |-> PlainError]
    /\ procs = <<>>
    /\ faults = 0

\* A call made and run to its return or throw: r is what it left and raised
Returned(r, call, vis) ==
    /\ pc = "idle"
    /\ calls < MaxCalls
    /\ calls' = calls + 1
    /\ pc' = "returned"
    /\ store' = r.st
    /\ prev' = store
    /\ last' = call
    /\ visited' = vis
    /\ UNCHANGED putNull
    /\ UNCHANGED retryVars
    /\ UNCHANGED stepVars

InitializeRoot ==
    LET r == initializeRoot(store)
    IN  Returned(r, Call("initializeRoot", <<>>, JSnull, <<>>, "", r.err), <<>>)

CreateNode ==
    \E p \in Paths, v \in InputValues :
        LET r == createNode(store, p, v)
        IN  Returned(r, Call("createNode", p, v, <<>>, "", r.err), <<>>)

SetValue ==
    \E p \in Paths, v \in InputValues :
        LET r == setValue(store, p, v)
        IN  Returned(r, Call("setValue", p, v, <<>>, "", r.err), <<>>)

DeleteNode ==
    \E p \in Paths :
        LET r == deleteNode(store, p)
        IN  Returned(r, Call("deleteNode", p, JSnull, <<>>, "", r.err), <<>>)

MoveNode ==
    \E s \in Paths, t \in Paths, k \in Segs :
        LET r == moveNode(store, s, t, k)
        IN  /\ Returned(r, Call("moveNode", s, JSnull, t, k, r.err), <<>>)
            /\ r.err # "overflow"

Strategies == {"depth-first", "breadth-first"}
DepthOptions == {Infinity} \cup (0..MaxTraverseDepth)

\* traverse with a visitor that records what it is handed; a visitor that
\* answers at a path the traversal cannot come to is the one that always
\* continues
Traverse ==
    \E p \in Paths, strategy \in Strategies, maxDepth \in DepthOptions,
       cb \in Visitors :
        LET r == traverse(store, p, cb, strategy, maxDepth)
        IN  /\ pc = "idle"
            /\ \A q \in cb.at : IsPrefix(p, q) /\ nodeExists(store, q)
            /\ Returned(Fail(store, r.err),
                        [Call("traverse", p, JSnull, <<>>, "", r.err)
                           EXCEPT !.strategy = strategy, !.maxDepth = maxDepth,
                                  !.cb = cb],
                        r.vis)

\* What the namespace does with the get of a nodeExists call
GetOutcomes ==
    {Success, PlainError} \cup {e \in Errors : e.status \in {404, 503}}

NodeExists ==
    \E p \in Paths, outcome \in GetOutcomes :
        LET r == nodeExistsCaught(store, p, outcome)
        IN  Returned(Ok(store),
                     [op |-> "nodeExists", p |-> p, outcome |-> outcome,
                      ret |-> r.ret, gets |-> r.gets, err |-> r.err],
                     <<>>)

GetValue ==
    \E p \in Paths :
        LET r == getValue(store, p)
        IN  Returned(Ok(store),
                     [op |-> "getValue", p |-> p, ret |-> r.val, err |-> r.err],
                     <<>>)

GetChildren ==
    \E p \in Paths :
        LET r == getChildren(store, p)
        IN  Returned(Ok(store),
                     [op |-> "getChildren", p |-> p, ret |-> r.val, err |-> r.err],
                     <<>>)

GetStats ==
    \E p \in Paths :
        LET r == getStats(store, p)
        IN  Returned(Ok(store),
                     [op |-> "getStats", p |-> p, ret |-> r, err |-> r.err],
                     <<>>)

\* exportTree([]), importTree of what it returned by a KVTreeStorage on an
\* empty namespace, and exportTree([]) there
ExportImport ==
    LET exported == exportTree(store, <<>>)
        imported == importTree(EmptyStore, exported.data, <<>>)
        again == exportTree(imported.st, <<>>)
    IN  Returned(Ok(store),
                 [op |-> "importTree", p |-> <<>>, exported |-> exported,
                  ret |-> IF exported.err = "none" /\ imported.err = "none"
                          THEN again ELSE exported,
                  err |-> IF exported.err # "none" THEN "ExportFailed"
                          ELSE imported.err],
                 <<>>)

\* The caller takes the outcome and is ready for its next call
Resume ==
    /\ pc = "returned"
    /\ calls < MaxCalls
    /\ pc' = "idle"
    /\ prev' = EmptyStore
    /\ last' = NoCall
    /\ visited' = <<>>
    /\ UNCHANGED <<store, putNull, calls>>
    /\ UNCHANGED retryVars
    /\ UNCHANGED stepVars

Next ==
    \/ InitializeRoot
    \/ CreateNode
    \/ SetValue
    \/ DeleteNode
    \/ MoveNode
    \/ Traverse
    \/ NodeExists
    \/ GetValue
    \/ GetChildren
    \/ GetStats
    \/ ExportImport
    \/ Resume

Spec == Init /\ [][Next]_vars

\* The caller making createNode, setValue, deleteNode and moveNode calls only,
\* each of which returns normally
NextSuccessful ==
    \/ CreateNode /\ last'.err = "none"
    \/ SetValue /\ last'.err = "none"
    \/ DeleteNode /\ last'.err = "none"
    \/ MoveNode /\ last'.err = "none"
    \/ Resume

SpecSuccessful == Init /\ [][NextSuccessful]_vars

\* Batch creation on its own: the specs hold any path, with a value or with
\* none (null)
BatchValues == {JSnull, JSstr("v")}
MaxBatch == 3
NodeSpecs == {[path |-> p, value |-> v] : p \in Paths, v \in BatchValues}

BatchCreateNodes ==
    \E nodeSpecs \in SeqsUpTo(NodeSpecs, MaxBatch) :
        LET r == batchCreateNodes(store, nodeSpecs)
        IN  Returned(r, [op |-> "batchCreateNodes", p |-> <<>>,
                         nodeSpecs |-> nodeSpecs, err |-> r.err], <<>>)

SpecBatch == Init /\ [][BatchCreateNodes]_vars

----------------------------------------------------------------------------
(* The pure functions, each under a specification of its own: the initial   *)
(* state holds the arguments of one call, the action makes the call.        *)

\* the tree and withRetry are left alone meanwhile
AtRest ==
    /\ store = EmptyStore
    /\ putNull = "coerce"
    /\ calls = 0
    /\ pc = "idle"
    /\ prev = EmptyStore
    /\ visited = <<>>
    /\ rMax = DefaultMaxRetries
    /\ rScript = <<>>
    /\ rAttempt = 0
    /\ rCalls = 0
    /\ rSleeps = 0
    /\ rPc = "returned"
    /\ rOut = [kind |-> "none", error |-> PlainError]
    /\ procs = <<>>
    /\ faults = 0

\* the call in last returns, result being what it returned
Apply(result) ==
    /\ pc = "idle"
    /\ pc' = "returned"
    /\ last' = [last EXCEPT !.ret = result]
    /\ UNCHANGED <<store, putNull, calls, prev, visited>>
    /\ UNCHANGED retryVars
    /\ UNCHANGED stepVars

\* Segments as the tree takes them: any strings, the empty one and those that
\* hold "::" included
KeySegs == {"", "a", "b", "a::b", "::"}
MaxKeyLen == 2
Suffixes == {"value", "parent", "children"}

InitKeys ==
    /\ AtRest
    /\ \E p \in SeqsUpTo(KeySegs, MaxKeyLen), q \in SeqsUpTo(KeySegs, MaxKeyLen),
          suffix \in Suffixes :
          last = [op |-> "createStorageKey", p |-> p, q |-> q, suffix |-> suffix,
                  ret |-> <<>>, err |-> "none"]

\* createStorageKey of the two paths, with the same suffix
CreateStorageKey ==
    /\ last.op = "createStorageKey"
    /\ Apply(<<createStorageKey(last.p, last.suffix),
               createStorageKey(last.q, last.suffix)>>)

SpecKeys == InitKeys /\ [][CreateStorageKey]_vars

\* new PathParser(enabledMethods): any of the methods, enabled or not
Configurations == SUBSET EscapeMethod

\* The characters of the segments tried: a letter, the four that parsePath
\* takes for the start of something, and one past U+00FF (the euro sign)
SegChars ==
    {charCodeAt("a"), charCodeAt("/"), charCodeAt("\\"), charCodeAt("%"),
     charCodeAt("&"), 8364}
MaxSegLen == 2
MaxSegs == 2

InitRoundTrip ==
    /\ AtRest
    /\ \E enabledMethods \in Configurations,
          components \in SeqsUpTo(SeqsUpTo(SegChars, MaxSegLen), MaxSegs) :
          last = [op |-> "createPath", enabledMethods |-> enabledMethods,
                  components |-> components, ret |-> <<>>, err |-> "none"]

\* createPath of the components, and parsePath of what it returned, by one
\* PathParser
CreateThenParse ==
    /\ last.op = "createPath"
    /\ Apply([pathString |-> createPath(last.components, last.enabledMethods),
              parsed |-> parsePath(createPath(last.components, last.enabledMethods),
                                   last.enabledMethods)])

SpecRoundTrip == InitRoundTrip /\ [][CreateThenParse]_vars

\* The path strings tried are written with these pieces: a letter, the
\* separator, and the separator in each of its escaped forms
Pieces ==
    { [text |-> Lit(<<"a">>), method |-> "none"],
      [text |-> Lit(<<"/">>), method |-> "none"],
      [text |-> Lit(<<"\\", "/">>), method |-> "BACKSLASH_ESCAPES"],
      [text |-> Lit(<<"%", "2", "F">>), method |-> "URL_ENCODING"],
      [text |-> Lit(<<"&", "#", "4", "7", ";">>), method |-> "HTML_NUMERIC_ENTITIES"],
      [text |-> Lit(<<"&", "#", "x", "2", "F", ";">>),
       method |-> "HTML_NUMERIC_ENTITIES"],
      [text |-> Lit(<<"&", "u", "2", "F", ";">>),
       method |-> "CUSTOM_UNICODE_ENTITIES"] }
MaxPieces == 3

RECURSIVE Written(_)
Written(pieces) ==
    IF pieces = <<>> THEN <<>> ELSE Head(pieces).text \o Written(Tail(pieces))

InitParse ==
    /\ AtRest
    /\ \E enabledMethods \in Configurations, pieces \in SeqsUpTo(Pieces, MaxPieces) :
          last = [op |-> "parsePath", enabledMethods |-> enabledMethods,
                  pieces |-> pieces, pathString |-> Written(pieces),
                  ret |-> <<>>, err |-> "none"]

ParsePath ==
    /\ last.op = "parsePath"
    /\ Apply(parsePath(last.pathString, last.enabledMethods))

SpecParse == InitParse /\ [][ParsePath]_vars

----------------------------------------------------------------------------
(* KVTreeStorage call by call of the store: every caller is a stack of the  *)
(* frames of its pending async functions, and one step of a caller is one   *)
(* call of kv.get, kv.put or kv.delete together with what the caller runs   *)
(* from the answer up to its next call of the store.                        *)

\* what the awaited callee left: nothing yet, a value returned, an error thrown
NoResult == [k |-> "none"]
Returns(v) == [k |-> "return", v |-> v]
Throws(e) == [k |-> "throw", e |-> e]

\* new Error(message): no status, name 'Error'; msg holds the message, the
\* messages it wraps behind it
NewError(kind) == [status |-> 0, name |-> "Error", timeout |-> FALSE, msg |-> <<kind>>]

\* new Error(`<context>: ${error.message}`): the message of error is part of
\* the new one, the word 'timeout' with it
Wrapped(kind, error) ==
    [status |-> 0, name |-> "Error", timeout |-> error.timeout,
     msg |-> <<kind>> \o error.msg]

\* what a store call raises when the namespace fails: a 503, which
\* isRetryableError accepts, or an error it does not
Unavailable == [status |-> 503, name |-> "Error", timeout |-> FALSE, msg |-> <<"Unavailable">>]
Refused == [status |-> 0, name |-> "Error", timeout |-> FALSE, msg |-> <<"Refused">>]
StoreFaults == {Unavailable, Refused}

\* a TypeError: of a namespace that rejects put(key, null), of reading the
\* message of an undefined lastError
TypeError == [status |-> 0, name |-> "TypeError", timeout |-> FALSE, msg |-> <<"TypeError">>]

\* let lastError, before anything is caught
Undefined == [status |-> 0, name |-> "undefined", timeout |-> FALSE, msg |-> <<>>]

\* what a caller's log keeps of a call it made
Event(call, pathArray, suffix, v, ok) ==
    [call |-> call, pathArray |-> pathArray, suffix |-> suffix, v |-> v, ok |-> ok]

Logged(p, event) == [p EXCEPT !.log = Append(@, event)]

Top(p) == p.stack[Len(p.stack)]
Pop(p) == SubSeq(p.stack, 1, Len(p.stack) - 1)

\* frame f awaits callee and goes on at pc
Await(p, f, pc_, callee) ==
    [p EXCEPT !.stack = Append(Append(Pop(p), [f EXCEPT !.pc = pc_]), callee),
              !.res = NoResult]

\* frame f goes on at pc
Goto(p, f, pc_) ==
    [p EXCEPT !.stack = Append(Pop(p), [f EXCEPT !.pc = pc_]), !.res = NoResult]

Return(p, v) == [p EXCEPT !.stack = Pop(p), !.res = Returns(v)]
Throw(p, e) == [p EXCEPT !.stack = Pop(p), !.res = Throws(e)]
Threw(p) == p.res.k = "throw"

\* The frames a call starts with
kvCall(call, pathArray, suffix, value) ==
    [fn |-> "kv", pc |-> call, pathArray |-> pathArray, suffix |-> suffix,
     value |-> value]
withRetryCall(operation) ==
    [fn |-> "withRetry", pc |-> "loop", attempt |-> 0, operation |-> operation,
     lastError |-> Undefined]
nodeExistsCall(pathArray) == [fn |-> "nodeExists", pc |-> "get", pathArray |-> pathArray]
initializeRootCall == [fn |-> "initializeRoot", pc |-> "check"]
createNodeCall(pathArray, value) ==
    [fn |-> "createNode", pc |-> "check", pathArray |-> pathArray, value |-> value]
createNodeBody(pathArray, value) ==
    [fn |-> "createNodeBody", pc |-> "value", pathArray |-> pathArray, value |-> value]
addChildToParentCall(parentPath, childKey) ==
    [fn |-> "addChildToParent", pc |-> "get", parentPath |-> parentPath,
     childKey |-> childKey]
removeChildFromParentCall(parentPath, childKey) ==
    [fn |-> "removeChildFromParent", pc |-> "get", parentPath |-> parentPath,
     childKey |-> childKey]
getValueCall(pathArray) == [fn |-> "getValue", pc |-> "get", pathArray |-> pathArray]
setValueCall(pathArray, value) ==
    [fn |-> "setValue", pc |-> "check", pathArray |-> pathArray, value |-> value]
getChildrenCall(pathArray) == [fn |-> "getChildren", pc |-> "get", pathArray |-> pathArray]
getNodeCall(pathArray) ==
    [fn |-> "getNode", pc |-> "value", pathArray |-> pathArray, value |-> JSnull]
deleteNodeCall(pathArray) ==
    [fn |-> "deleteNode", pc |-> "check", pathArray |-> pathArray, allPaths |-> <<>>]
collectDescendantsCall(pathArray) ==
    [fn |-> "collectDescendants", pc |-> "loop", descendants |-> <<>>,
     queue |-> <<pathArray>>, currentPath |-> <<>>]
deleteSingleNodeCall(pathArray) ==
    [fn |-> "deleteSingleNode", pc |-> "loop", pathArray |-> pathArray,
     keys |-> IF Len(pathArray) > 0 THEN <<"value", "children", "parent">>
              ELSE <<"value", "children">>]
moveNodeCall(sourcePath, targetParentPath, newKey) ==
    [fn |-> "moveNode", pc |-> "check", sourcePath |-> sourcePath,
     targetParentPath |-> targetParentPath, newKey |-> newKey, error |-> PlainError]
copySubtreeCall(sourcePath, targetParentPath, newKey) ==
    [fn |-> "copySubtree", pc |-> "read", sourcePath |-> sourcePath,
     targetParentPath |-> targetParentPath, newKey |-> newKey, children |-> <<>>]
importTreeCall(treeData, pathArray) ==
    [fn |-> "importTree", pc |-> "node", treeData |-> treeData,
     pathArray |-> pathArray, entries |-> treeData.children]

\* a destination deeper than MaxDepth: the caller is followed no further
Overflow == [fn |-> "overflow", pc |-> "halt"]

\* withRetry: the for loop and its catch
withRetryFrame(p, f) ==
    CASE f.pc = "loop" ->
            IF f.attempt < rMax THEN Await(p, f, "tried", f.operation)
            ELSE IF f.lastError = Undefined THEN Throw(p, TypeError)
            ELSE Throw(p, Wrapped("RetryExhausted", f.lastError))
      [] f.pc = "tried" ->
            IF ~Threw(p) THEN Return(p, p.res.v)
            ELSE IF retryAgain(p.res.e, f.attempt, rMax)
            THEN Goto(p, [f EXCEPT !.attempt = @ + 1, !.lastError = p.res.e], "loop")
            ELSE Throw(p, p.res.e)

\* nodeExists: one get, whatever it raises is caught
nodeExistsFrame(p, f) ==
    CASE f.pc = "get" -> Await(p, f, "got", kvCall("get", f.pathArray, "value", JSnull))
      [] f.pc = "got" ->
            IF Threw(p) THEN Return(p, FALSE) ELSE Return(p, p.res.v # JSnull)

initializeRootFrame(p, f) ==
    CASE f.pc = "check" -> Await(p, f, "checked", nodeExistsCall(<<>>))
      [] f.pc = "checked" ->
            IF ~p.res.v THEN Await(p, f, "created", createNodeCall(<<>>, JSnull))
            ELSE Return(p, JSnull)
      [] f.pc = "created" -> Return(p, JSnull)

createNodeFrame(p, f) ==
    CASE f.pc = "check" ->
            IF Len(f.pathArray) = 0
            THEN Await(p, f, "rootChecked", nodeExistsCall(<<>>))
            ELSE Await(p, f, "parentChecked", nodeExistsCall(parentOf(f.pathArray)))
      [] f.pc = "rootChecked" ->
            IF p.res.v THEN Throw(p, NewError("AlreadyExists"))
            ELSE Await(p, f, "written",
                       withRetryCall(createNodeBody(f.pathArray, f.value)))
      [] f.pc = "parentChecked" ->
            IF ~p.res.v THEN Throw(p, NewError("ParentMissing"))
            ELSE Await(p, f, "written",
                       withRetryCall(createNodeBody(f.pathArray, f.value)))
      [] f.pc = "written" -> Return(p, JSnull)

\* as createNodeBodyFrame, the parent's children list updated first
createNodeBodyLinkFirst(p, f) ==
    CASE f.pc = "value" ->
            IF Len(f.pathArray) > 0
            THEN Await(p, f, "parent",
                       addChildToParentCall(parentOf(f.pathArray), lastSeg(f.pathArray)))
            ELSE Goto(p, f, "parent")
      [] f.pc = "parent" ->
            Await(p, f, "children",
                  kvCall("put", f.pathArray, "value", serializeValue(f.value)))
      [] f.pc = "children" ->
            IF Len(f.pathArray) > 0
            THEN Await(p, f, "link",
                       kvCall("put", f.pathArray, "parent",
                              serializeValue(JSlist(parentOf(f.pathArray)))))
            ELSE Goto(p, f, "link")
      [] f.pc = "link" ->
            Await(p, f, "linked",
                  kvCall("put", f.pathArray, "children", serializeValue(JSlist(<<>>))))
      [] f.pc = "linked" -> Return(p, JSnull)

\* the operation createNode hands to withRetry
createNodeBodyFrame(p, f) ==
    CASE f.pc = "value" ->
            Await(p, f, "parent",
                  kvCall("put", f.pathArray, "value", serializeValue(f.value)))
      [] f.pc = "parent" ->
            IF Len(f.pathArray) > 0
            THEN Await(p, f, "children",
                       kvCall("put", f.pathArray, "parent",
                              serializeValue(JSlist(parentOf(f.pathArray)))))
            ELSE Goto(p, f, "children")
      [] f.pc = "children" ->
            Await(p, f, "link",
                  kvCall("put", f.pathArray, "children", serializeValue(JSlist(<<>>))))
      [] f.pc = "link" ->
            IF Len(f.pathArray) > 0
            THEN Await(p, f, "linked",
                       addChildToParentCall(parentOf(f.pathArray), lastSeg(f.pathArray)))
            ELSE Return(p, JSnull)
      [] f.pc = "linked" -> Return(p, JSnull)

\* as includes, the key never found
includesNever(currentChildren, childKey) == FALSE

\* currentChildren.includes(childKey)
includes(currentChildren, childKey) ==
    \E i \in 1..Len(currentChildren) : currentChildren[i] = childKey

\* as pushed, the key left out
unpushed(currentChildren, childKey) == currentChildren

\* currentChildren.push(childKey)
pushed(currentChildren, childKey) == Append(currentChildren, childKey)

addChildToParentFrame(p, f) ==
    CASE f.pc = "get" ->
            Await(p, f, "got",
                  withRetryCall(kvCall("get", f.parentPath, "children", JSnull)))
      [] f.pc = "got" ->
            LET currentChildren == OrEmpty(p.res.v)
            IN  IF includes(currentChildren, f.childKey)
                THEN Return(p, JSnull)
                ELSE Await(p, f, "put",
                           withRetryCall(kvCall("put", f.parentPath, "children",
                               serializeValue(JSlist(pushed(currentChildren,
                                                            f.childKey))))))
      [] f.pc = "put" -> Return(p, JSnull)

removeChildFromParentFrame(p, f) ==
    CASE f.pc = "get" ->
            Await(p, f, "got",
                  withRetryCall(kvCall("get", f.parentPath, "children", JSnull)))
      [] f.pc = "got" ->
            LET currentChildren == OrEmpty(p.res.v)
                updatedChildren ==
                    SelectSeq(currentChildren, LAMBDA key : key # f.childKey)
            IN  Await(p, f, "put",
                      withRetryCall(kvCall("put", f.parentPath, "children",
                                           serializeValue(JSlist(updatedChildren)))))
      [] f.pc = "put" -> Return(p, JSnull)

getValueFrame(p, f) ==
    CASE f.pc = "get" ->
            Await(p, f, "got", withRetryCall(kvCall("get", f.pathArray, "value", JSnull)))
      [] f.pc = "got" ->
            IF p.res.v = JSnull THEN Throw(p, NewError("NotFound"))
            ELSE Return(p, deserializeValue(p.res.v))

setValueFrame(p, f) ==
    CASE f.pc = "check" -> Await(p, f, "checked", nodeExistsCall(f.pathArray))
      [] f.pc = "checked" ->
            IF ~p.res.v THEN Throw(p, NewError("NotFound"))
            ELSE Await(p, f, "put",
                       withRetryCall(kvCall("put", f.pathArray, "value",
                                            serializeValue(f.value))))
      [] f.pc = "put" -> Return(p, JSnull)

getChildrenFrame(p, f) ==
    CASE f.pc = "get" ->
            Await(p, f, "got",
                  withRetryCall(kvCall("get", f.pathArray, "children", JSnull)))
      [] f.pc = "got" ->
            IF p.res.v = JSnull THEN Throw(p, NewError("NotFound"))
            ELSE Return(p, OrEmpty(p.res.v))

\* getNode: Promise.all of getValue and getChildren, the two reads taken one
\* after the other
getNodeFrame(p, f) ==
    CASE f.pc = "value" -> Await(p, f, "children", getValueCall(f.pathArray))
      [] f.pc = "children" ->
            Await(p, [f EXCEPT !.value = p.res.v], "both", getChildrenCall(f.pathArray))
      [] f.pc = "both" ->
            Return(p, [path |-> f.pathArray, value |-> f.value, children |-> p.res.v])

\* deleteNode: the checks, then the try block, whose catch wraps the error
deleteNodeFrame(p, f) ==
    CASE f.pc = "check" ->
            LET entered == Logged(p, Event("deleteNode", f.pathArray, "", JSnull, TRUE))
            IN  IF Len(f.pathArray) = 0
                THEN Throw(entered, NewError("InvalidOperation"))
                ELSE Await(entered, f, "checked", nodeExistsCall(f.pathArray))
      [] f.pc = "checked" ->
            IF ~p.res.v THEN Throw(p, NewError("NotFound"))
            ELSE Await(p, f, "collected", collectDescendantsCall(f.pathArray))
      [] f.pc = "collected" ->
            LET allPaths == Reverse(<<f.pathArray>> \o p.res.v)
            IN  Goto(Logged(p, Event("allPaths", f.pathArray, "", allPaths, TRUE)),
                     [f EXCEPT !.allPaths = allPaths], "loop")
      [] f.pc = "loop" ->
            IF Threw(p) THEN Throw(p, Wrapped("DeleteFailed", p.res.e))
            ELSE IF f.allPaths # <<>>
            THEN Await(p, [f EXCEPT !.allPaths = Tail(@)], "loop",
                       deleteSingleNodeCall(Head(f.allPaths)))
            ELSE Await(p, f, "unlinked",
                       removeChildFromParentCall(parentOf(f.pathArray),
                                                 lastSeg(f.pathArray)))
      [] f.pc = "unlinked" ->
            IF Threw(p) THEN Throw(p, Wrapped("DeleteFailed", p.res.e))
            ELSE Return(p, JSnull)

\* collectDescendants: queue.shift(), the children of the path taken appended
\* to both lists; a getChildren that throws is passed over
collectDescendantsFrame(p, f) ==
    CASE f.pc = "loop" ->
            IF f.queue = <<>> THEN Return(p, f.descendants)
            ELSE Await(p, [f EXCEPT !.currentPath = Head(f.queue), !.queue = Tail(@)],
                       "children", getChildrenCall(Head(f.queue)))
      [] f.pc = "children" ->
            IF Threw(p) THEN Goto(p, f, "loop")
            ELSE LET childPaths == [i \in 1..Len(p.res.v) |->
                                       Append(f.currentPath, p.res.v[i])]
                 IN  Goto(p, [f EXCEPT !.descendants = @ \o childPaths,
                                       !.queue = @ \o childPaths], "loop")

\* deleteSingleNode: the keys of the node, deleted one after the other
deleteSingleNodeFrame(p, f) ==
    IF f.keys = <<>> THEN Return(p, JSnull)
    ELSE Await(p, [f EXCEPT !.keys = Tail(@)], "loop",
               withRetryCall(kvCall("delete", f.pathArray, Head(f.keys), JSnull)))

\* as moveError, the error of the cleanup taken where there is one
moveErrorOfCleanup(error, cleanup) ==
    IF cleanup.k = "throw" THEN Wrapped("MoveFailed", cleanup.e)
    ELSE Wrapped("MoveFailed", error)

\* new Error(`Failed to move node: ${error.message}`), error being what the try
\* block threw, whatever the cleanup left
moveError(error, cleanup) == Wrapped("MoveFailed", error)

\* moveNode: the checks, the try block of copy and delete, and the catch block
\* with the cleanup whose own error is dropped
moveNodeFrame(p, f) ==
    LET newPath == Append(f.targetParentPath, f.newKey)
    IN  CASE f.pc = "check" ->
                IF Len(f.sourcePath) = 0 THEN Throw(p, NewError("InvalidOperation"))
                ELSE Await(p, f, "source", nodeExistsCall(f.sourcePath))
          [] f.pc = "source" ->
                IF ~p.res.v THEN Throw(p, NewError("NotFound"))
                ELSE Await(p, f, "target", nodeExistsCall(f.targetParentPath))
          [] f.pc = "target" ->
                IF ~p.res.v THEN Throw(p, NewError("ParentMissing"))
                ELSE Await(p, f, "new", nodeExistsCall(newPath))
          [] f.pc = "new" ->
                IF p.res.v THEN Throw(p, NewError("AlreadyExists"))
                ELSE Await(p, f, "copied",
                           copySubtreeCall(f.sourcePath, f.targetParentPath, f.newKey))
          [] f.pc = "copied" ->
                IF Threw(p)
                THEN Await(Logged(p, Event("catch", newPath, "", p.res.e, TRUE)),
                           [f EXCEPT !.error = p.res.e], "cleaned",
                           deleteNodeCall(newPath))
                ELSE Await(p, f, "deleted", deleteNodeCall(f.sourcePath))
          [] f.pc = "deleted" ->
                IF Threw(p)
                THEN Await(Logged(p, Event("catch", newPath, "", p.res.e, TRUE)),
                           [f EXCEPT !.error = p.res.e], "cleaned",
                           deleteNodeCall(newPath))
                ELSE Return(p, JSnull)
          [] f.pc = "cleaned" -> Throw(p, moveError(f.error, p.res))

\* copySubtree: the node read, its copy created, then each child in turn
copySubtreeFrame(p, f) ==
    LET newPath == Append(f.targetParentPath, f.newKey)
    IN  CASE f.pc = "read" ->
                IF Len(newPath) > MaxDepth THEN Await(p, f, "read", Overflow)
                ELSE Await(p, f, "create", getNodeCall(f.sourcePath))
          [] f.pc = "create" ->
                Await(p, [f EXCEPT !.children = p.res.v.children], "loop",
                      createNodeCall(newPath, p.res.v.value))
          [] f.pc = "loop" ->
                IF f.children = <<>> THEN Return(p, JSnull)
                ELSE Await(p, [f EXCEPT !.children = Tail(@)], "loop",
                           copySubtreeCall(Append(f.sourcePath, Head(f.children)),
                                           newPath, Head(f.children)))

\* treeData.value of an entry that has none
JSundefined == [t |-> "undefined"]

importTreeFrame(p, f) ==
    CASE f.pc = "node" ->
            IF Len(f.pathArray) = 0 THEN Await(p, f, "root", initializeRootCall)
            ELSE Await(p, f, "loop", createNodeCall(f.pathArray, f.treeData.value))
      [] f.pc = "root" ->
            IF f.treeData.value # JSundefined
            THEN Await(p, f, "loop", setValueCall(<<>>, f.treeData.value))
            ELSE Goto(p, f, "loop")
      [] f.pc = "loop" ->
            IF f.entries = <<>> THEN Return(p, JSnull)
            ELSE Await(p, [f EXCEPT !.entries = Tail(@)], "loop",
                       importTreeCall(Head(f.entries).data,
                                      Append(f.pathArray, Head(f.entries).key)))

\* the frames that catch what their callee throws, where they stand
Catches(f) ==
    \/ f.fn = "withRetry" /\ f.pc = "tried"
    \/ f.fn = "nodeExists" /\ f.pc = "got"
    \/ f.fn = "deleteNode" /\ f.pc \in {"loop", "unlinked"}
    \/ f.fn = "collectDescendants" /\ f.pc = "children"
    \/ f.fn = "moveNode" /\ f.pc \in {"copied", "deleted", "cleaned"}

\* The caller runs on by one statement: an error nobody catches here ends the
\* frame, anything else is the frame's next statement
Statement(p) ==
    LET f == Top(p)
    IN  IF Threw(p) /\ ~Catches(f) THEN Throw(p, p.res.e)
        ELSE CASE f.fn = "withRetry" -> withRetryFrame(p, f)
               [] f.fn = "nodeExists" -> nodeExistsFrame(p, f)
               [] f.fn = "initializeRoot" -> initializeRootFrame(p, f)
               [] f.fn = "createNode" -> createNodeFrame(p, f)
               [] f.fn = "createNodeBody" -> createNodeBodyFrame(p, f)
               [] f.fn = "addChildToParent" -> addChildToParentFrame(p, f)
               [] f.fn = "removeChildFromParent" -> removeChildFromParentFrame(p, f)
               [] f.fn = "getValue" -> getValueFrame(p, f)
               [] f.fn = "setValue" -> setValueFrame(p, f)
               [] f.fn = "getChildren" -> getChildrenFrame(p, f)
               [] f.fn = "getNode" -> getNodeFrame(p, f)
               [] f.fn = "deleteNode" -> deleteNodeFrame(p, f)
               [] f.fn = "collectDescendants" -> collectDescendantsFrame(p, f)
               [] f.fn = "deleteSingleNode" -> deleteSingleNodeFrame(p, f)
               [] f.fn = "moveNode" -> moveNodeFrame(p, f)
               [] f.fn = "copySubtree" -> copySubtreeFrame(p, f)
               [] f.fn = "importTree" -> importTreeFrame(p, f)

AtStore(p) == p.stack # <<>> /\ Top(p).fn = "kv"
Halted(p) == p.stack # <<>> /\ Top(p).fn = "overflow"

\* the caller runs up to its next call of the store, or to the end of its call
RECURSIVE Advance(_)
Advance(p) ==
    IF p.stack = <<>> \/ AtStore(p) \/ Halted(p) THEN p
    ELSE Advance(Statement(p))

----------------------------------------------------------------------------
(* Callers, their calls, and the store answering one call at a time *)

Callers == {1, 2}

MaxFaults == 2         \* store calls that fail
StepMaxRetries == 2    \* this.maxRetries of the callers

StepCall(op, p, v, t, k) == [op |-> op, p |-> p, v |-> v, t |-> t, k |-> k]
NoStepCall == StepCall("none", <<>>, JSnull, <<>>, "")

\* a caller that has made no call
IdleCaller ==
    [stack |-> <<>>, res |-> NoResult, log |-> <<>>, call |-> NoStepCall,
     start |-> EmptyStore, faulted |-> FALSE, made |-> 0,
     earlier |-> [call |-> NoStepCall, threw |-> FALSE, faulted |-> FALSE,
                  start |-> EmptyStore]]

\* { value: 'v', children: { a: { value: 'v', children: {} } } }
SmallTree ==
    [value |-> JSstr("v"),
     children |-> <<[key |-> "a", data |-> [value |-> JSstr("v"), children |-> <<>>]]>>]

FrameOf(call) ==
    CASE call.op = "initializeRoot" -> initializeRootCall
      [] call.op = "createNode" -> createNodeCall(call.p, call.v)
      [] call.op = "deleteNode" -> deleteNodeCall(call.p)
      [] call.op = "moveNode" -> moveNodeCall(call.p, call.t, call.k)
      [] call.op = "importTree" -> importTreeCall(SmallTree, call.p)

\* kv.get, kv.put, kv.delete answered by the namespace
kvAnswer(st, f) ==
    LET key == createStorageKey(f.pathArray, f.suffix)
        put == kvPut(st, key, f.value)
    IN  CASE f.pc = "get" -> [st |-> st, res |-> Returns(kvGet(st, key))]
          [] f.pc = "put" ->
                [st |-> put.st,
                 res |-> IF put.err = "none" THEN Returns(JSnull) ELSE Throws(TypeError)]
          [] f.pc = "delete" -> [st |-> kvDelete(st, key), res |-> Returns(JSnull)]

\* the caller has its answer and runs on
Answered(c, answer, fault) ==
    LET p == procs[c]
        f == Top(p)
        event == Event(f.pc, f.pathArray, f.suffix,
                       IF f.pc = "get" /\ answer.res.k = "return"
                       THEN answer.res.v ELSE f.value,
                       answer.res.k = "return")
    IN  /\ store' = answer.st
        /\ procs' = [procs EXCEPT ![c] =
                        Advance([p EXCEPT !.stack = Pop(p), !.res = answer.res,
                                          !.log = Append(@, event),
                                          !.faulted = @ \/ fault])]
        /\ faults' = IF fault THEN faults + 1 ELSE faults
        /\ UNCHANGED <<putNull, calls, pc, prev, last, visited>>
        /\ UNCHANGED retryVars

\* One call of the store by caller c, answered
StoreAnswers(c) ==
    /\ AtStore(procs[c])
    /\ Answered(c, kvAnswer(store, Top(procs[c])), FALSE)

\* One call of the store by caller c, failed: nothing is read or written.
\* The namespace fails budget calls at most.
Fails(c, budget) ==
    /\ AtStore(procs[c])
    /\ faults < budget
    /\ \E error \in StoreFaults :
          Answered(c, [st |-> store, res |-> Throws(error)], TRUE)

StoreFails(c) == Fails(c, MaxFaults)

\* Caller c, at rest, makes a call and runs up to its first call of the store
Starts(c, call) ==
    /\ procs[c].stack = <<>>
    /\ procs' = [procs EXCEPT ![c] =
                    Advance([stack |-> <<FrameOf(call)>>, res |-> NoResult,
                             log |-> <<>>, call |-> call, start |-> store,
                             faulted |-> FALSE, made |-> procs[c].made + 1,
                             earlier |-> [call |-> procs[c].call,
                                          threw |-> Threw(procs[c]),
                                          faulted |-> procs[c].faulted,
                                          start |-> procs[c].start]])]
    /\ UNCHANGED <<store, faults, putNull, calls, pc, prev, last, visited>>
    /\ UNCHANGED retryVars

\* The trees the callers start on, made by createNode calls, every value 'v'
Planted(st, pathArray) ==
    LET listKey == createStorageKey(parentOf(pathArray), "children")
        own == kvWrite(kvWrite(st, createStorageKey(pathArray, "value"),
                               JsonText(JSstr("v"))),
                       createStorageKey(pathArray, "children"), JsonText(JSlist(<<>>)))
    IN  IF pathArray = <<>> THEN own
        ELSE kvWrite(kvWrite(own, createStorageKey(pathArray, "parent"),
                             JsonText(JSlist(parentOf(pathArray)))),
                     listKey,
                     JsonText(JSlist(Append(OrEmpty(kvGet(st, listKey)),
                                            lastSeg(pathArray)))))

TreeRoot == Planted(EmptyStore, <<>>)
TreeA == Planted(TreeRoot, <<"a">>)
TreeAB == Planted(TreeA, <<"a", "b">>)
TreeWide == Planted(Planted(TreeA, <<"b">>), <<"a", "a">>)
TreeFull == Planted(TreeWide, <<"a", "b">>)

InitSteps(stores, nullPuts) ==
    /\ store \in stores
    /\ putNull \in nullPuts
    /\ procs = [c \in Callers |-> IdleCaller]
    /\ faults = 0
    /\ rMax = StepMaxRetries
    /\ calls = 0
    /\ pc = "idle"
    /\ prev = EmptyStore
    /\ last = NoCall
    /\ visited = <<>>
    /\ rScript = <<>>
    /\ rAttempt = 0
    /\ rCalls = 0
    /\ rSleeps = 0
    /\ rPc = "returned"
    /\ rOut = [kind |-> "none", error |-> PlainError]

\* One caller and a store that fails: a call, and after it a deleteNode
FaultStores == {EmptyStore, TreeRoot, TreeA, TreeAB, TreeFull}

FaultCalls ==
    {StepCall("initializeRoot", <<>>, JSnull, <<>>, "")}
    \cup {StepCall("createNode", p, JSstr("v"), <<>>, "") : p \in Paths \ {<<>>}}
    \cup {StepCall("deleteNode", p, JSnull, <<>>, "") : p \in Paths}
    \cup {StepCall("moveNode", s, JSnull, t, k) :
            s \in Paths, t \in {q \in Paths : Len(q) < MaxDepth}, k \in Segs}

\* put(key, null) matters to initializeRoot alone here: the namespace is the
\* one that stores the text 'null', on which the root does come to exist
InitFaults == InitSteps(FaultStores, {"coerce"})

FirstCall ==
    \E call \in FaultCalls : procs[1].made = 0 /\ Starts(1, call)

DeleteAgain ==
    \E p \in Paths :
        /\ procs[1].made = 1
        /\ Starts(1, StepCall("deleteNode", p, JSnull, <<>>, ""))

NextFaults == FirstCall \/ DeleteAgain \/ StoreAnswers(1) \/ StoreFails(1)

SpecFaults == InitFaults /\ [][NextFaults]_vars

\* Two callers, one call each, and a store that fails
RaceStores == {EmptyStore, TreeRoot, TreeA}

RaceCalls ==
    {StepCall("initializeRoot", <<>>, JSnull, <<>>, ""),
     StepCall("importTree", <<>>, JSnull, <<>>, "")}
    \cup {StepCall("createNode", p, JSstr("v"), <<>>, "") :
            p \in {<<"a">>, <<"b">>, <<"a", "a">>, <<"a", "b">>}}
    \cup {StepCall("deleteNode", p, JSnull, <<>>, "") : p \in {<<"a">>, <<"a", "b">>}}
    \cup {StepCall("moveNode", s, JSnull, <<>>, "b") : s \in {<<"a">>, <<"a", "b">>}}

MaxRaceFaults == 1     \* store calls that fail while two callers run

InitRace == InitSteps(RaceStores, {"coerce"})

Race(c) ==
    \E call \in RaceCalls : procs[c].made = 0 /\ Starts(c, call)

StoreFailsInRace(c) == Fails(c, MaxRaceFaults)

\* The callers being alike, the call that fails is taken to be one of caller 1
NextRace ==
    \/ \E c \in Callers : Race(c) \/ StoreAnswers(c)
    \/ StoreFailsInRace(1)

SpecRace == InitRace /\ [][NextRace]_vars

----------------------------------------------------------------------------
(* Properties of withRetry, under SpecRetry *)

\* The transient errors: rate limit, server error, network failure, timeout
Retryable(error) ==
    \/ error.status = 429
    \/ error.status >= 500
    \/ error.name = "NetworkError"
    \/ error.timeout

Failed(i) == rScript[i] # Success

AllFailRetryable ==
    \A i \in 1..Len(rScript) : Failed(i) /\ Retryable(rScript[i])

\* C4: when every invocation fails with a retryable error, withRetry ends
\* after exactly maxRetries invocations by throwing the wrapped error, which
\* carries the last underlying error, and not that error itself.
C4_ExhaustedThrowsWrapped ==
    (rMax >= 1 /\ AllFailRetryable /\ rPc # "loop") =>
        /\ rPc = "threw"
        /\ rCalls = rMax
        /\ rOut = [kind |-> "wrapped", error |-> rScript[rMax]]

\* the first k invocations fail with retryable errors and invocation k+1 succeeds
FailsThenSucceeds(k) ==
    /\ k + 1 <= Len(rScript)
    /\ \A i \in 1..k : Failed(i) /\ Retryable(rScript[i])
    /\ rScript[k + 1] = Success

\* C5: an operation that fails k < maxRetries times with retryable errors and
\* then succeeds is invoked exactly k+1 times, withRetry sleeps once between
\* consecutive invocations and returns the result.
C5_ReturnsAfterKFailures ==
    \A k \in 0..(rMax - 1) :
        FailsThenSucceeds(k) =>
            /\ rPc # "threw"
            /\ rPc = "loop" => (rCalls <= k /\ rSleeps = rCalls)
            /\ rPc = "returned" =>
                  (rCalls = k + 1 /\ rSleeps = k /\ rOut.kind = "result")

C5_Witness ==
    /\ FailsThenSucceeds(2)
    /\ rPc = "returned"
    /\ rCalls = 3
    /\ rSleeps = 2

\* C6: an error that is not retryable is thrown to the caller as it is, by the
\* invocation that raised it: no sleep follows it and no further invocation.
C6_NonRetryablePropagates ==
    \A i \in 1..rCalls :
        (Failed(i) /\ ~Retryable(rScript[i])) =>
            /\ rPc = "threw"
            /\ rCalls = i
            /\ rSleeps = i - 1
            /\ rOut = [kind |-> "bare", error |-> rScript[i]]

C6_Witness ==
    /\ rMax > 1
    /\ Failed(1)
    /\ rScript[1].status = 404
    /\ rPc = "threw"
    /\ rCalls = 1
    /\ rSleeps = 0

----------------------------------------------------------------------------
(* Properties of the tree, under Spec *)

Did(op) == pc = "returned" /\ last.op = op
Succeeded(op) == Did(op) /\ last.err = "none"

Listed(st, parentPath, childKey) ==
    /\ getChildren(st, parentPath).err = "none"
    /\ \E i \in 1..Len(getChildren(st, parentPath).val) :
          getChildren(st, parentPath).val[i] = childKey

ChildSet(st, pathArray) ==
    {getChildren(st, pathArray).val[i] : i \in 1..Len(getChildren(st, pathArray).val)}

\* q lies in the subtree of p: every step from p down to q is an entry of a
\* children list
InSubtree(st, p, q) ==
    /\ IsPrefix(p, q)
    /\ \A n \in (Len(p) + 1)..Len(q) : Listed(st, SubSeq(q, 1, n - 1), q[n])

Subtree(st, p) == {q \in Paths : InSubtree(st, p, q)}

\* q, a path under p, carried under r
Rebase(q, p, r) == r \o SubSeq(q, Len(p) + 1, Len(q))

\* C1: after createNode(p, v) has returned for a non-root p and a non-null v,
\* p exists, holds v, has an empty children list, and its last segment is in
\* its parent's children list.
C1_CreateNodePostcondition ==
    (Succeeded("createNode") /\ last.p # <<>> /\ last.v # JSnull) =>
        /\ nodeExists(store, last.p)
        /\ getValue(store, last.p) = [val |-> last.v, err |-> "none"]
        /\ getChildren(store, last.p) = [val |-> <<>>, err |-> "none"]
        /\ Listed(store, parentOf(last.p), lastSeg(last.p))

C1_Witness ==
    /\ Succeeded("createNode")
    /\ Len(last.p) = 2
    /\ last.v = JSstr("w")
    /\ nodeExists(prev, parentOf(last.p))
    /\ ~nodeExists(prev, last.p)

\* C2: after moveNode(s, t, k) has returned, for any existing target parent t,
\* s itself and the nodes under s included, s is gone, t+[k] exists with the
\* value s had, and the subtree that was under s is under t+[k], values and
\* child sets alike.
C2_MoveNodeCarriesSubtree ==
    Succeeded("moveNode") =>
        /\ ~nodeExists(store, last.p)
        /\ nodeExists(store, Append(last.t, last.k))
        /\ getValue(store, Append(last.t, last.k)) = getValue(prev, last.p)
        /\ \A q \in Subtree(prev, last.p) :
              /\ getValue(store, Rebase(q, last.p, Append(last.t, last.k)))
                    = getValue(prev, q)
              /\ ChildSet(store, Rebase(q, last.p, Append(last.t, last.k)))
                    = ChildSet(prev, q)

\* C3: after deleteNode(p) has returned, neither p nor any path under p
\* exists, and p's last segment is not in its parent's children list.
C3_DeleteNodeRemovesAll ==
    Succeeded("deleteNode") =>
        /\ \A q \in Paths : IsPrefix(last.p, q) => ~nodeExists(store, q)
        /\ ~Listed(store, parentOf(last.p), lastSeg(last.p))

\* C7: createNode under a parent that does not exist throws the parent-missing
\* error and writes nothing: the store is as it was, and p does not come to
\* exist.
C7_ParentMissingWritesNothing ==
    (Did("createNode") /\ last.p # <<>> /\ ~nodeExists(prev, parentOf(last.p))) =>
        /\ last.err = "ParentMissing"
        /\ store = prev
        /\ ~nodeExists(prev, last.p) => ~nodeExists(store, last.p)

C7_Witness ==
    /\ Did("createNode")
    /\ Len(last.p) = 2
    /\ nodeExists(prev, <<>>)
    /\ ~nodeExists(prev, parentOf(last.p))
    /\ last.err = "ParentMissing"

\* C8: deleteNode([]) and moveNode([], t, k) throw the invalid-operation error
\* and write nothing, and a root that exists still exists after any call.
C8_RootStays ==
    /\ ((Did("deleteNode") \/ Did("moveNode")) /\ last.p = <<>>) =>
          (last.err = "InvalidOperation" /\ store = prev)
    /\ (pc = "returned" /\ nodeExists(prev, <<>>)) => nodeExists(store, <<>>)

\* C9: initializeRoot throws nothing; on an empty store it leaves a root that
\* exists and has an empty children list; where the root exists it changes
\* no record.
C9_InitializeRootIdempotent ==
    Did("initializeRoot") =>
        /\ last.err = "none"
        /\ prev = EmptyStore =>
              /\ nodeExists(store, <<>>)
              /\ getChildren(store, <<>>) = [val |-> <<>>, err |-> "none"]
        /\ nodeExists(prev, <<>>) => store = prev

\* the depth of q below the starting path
DepthBelow(q, start) == Len(q) - Len(start)

WithinDepth(depth, maxDepth) == maxDepth = Infinity \/ depth <= maxDepth

\* what a traversal from start is to visit: the subtree down to maxDepth
ToVisit(st, start, maxDepth) ==
    {Visit(q, DepthBelow(q, start)) :
        q \in {x \in Subtree(st, start) : WithinDepth(DepthBelow(x, start), maxDepth)}}

IndexIn(list, x) == CHOOSE i \in 1..Len(list) : list[i] = x

\* the length of the longest common prefix of p and q
CommonLen(p, q) ==
    CHOOSE n \in 0..Len(p) :
        /\ n <= Len(q)
        /\ SubSeq(p, 1, n) = SubSeq(q, 1, n)
        /\ (n < Len(p) /\ n < Len(q)) => p[n + 1] # q[n + 1]

\* p comes before q in pre-order: p is above q, or where they part p takes
\* the child listed earlier
PreOrderBefore(st, p, q) ==
    \/ IsPrefix(p, q)
    \/ /\ ~IsPrefix(q, p)
       /\ LET n == CommonLen(p, q)
              list == getChildren(st, SubSeq(p, 1, n)).val
          IN  IndexIn(list, p[n + 1]) < IndexIn(list, q[n + 1])

\* C10: a traversal whose visitor always continues calls the visitor once for
\* each node of the subtree at depth <= maxDepth and for no other, with the
\* node's depth below the start; depth-first in pre-order (a node before its
\* descendants, children in list order), breadth-first level by level.
C10_TraverseVisits ==
    (Succeeded("traverse") /\ last.cb = AlwaysContinue) =>
        /\ \A i, j \in 1..Len(visited) :
              i # j => visited[i].path # visited[j].path
        /\ {visited[i] : i \in 1..Len(visited)}
              = ToVisit(store, last.p, last.maxDepth)
        /\ last.strategy = "depth-first" =>
              \A i, j \in 1..Len(visited) :
                  i < j => PreOrderBefore(store, visited[i].path, visited[j].path)
        /\ last.strategy = "breadth-first" =>
              \A i, j \in 1..Len(visited) :
                  i < j => visited[i].depth <= visited[j].depth

C10_Witness ==
    /\ Succeeded("traverse")
    /\ last.cb = AlwaysContinue
    /\ last.strategy = "depth-first"
    /\ last.p = <<>>
    /\ \E i, j \in 1..Len(visited) :
          i < j /\ visited[i].depth = 2 /\ visited[j].depth = 1

\* the visitor's falsy answers, true being its only other answer here
Falsy == {"false", "undefined", "0"}

WasVisited(q) == \E i \in 1..Len(visited) : visited[i].path = q

\* C11: in both strategies, when the visitor returns a falsy value (false,
\* undefined, 0) at a node n that has children, no descendant of n is
\* visited, and the nodes outside n's subtree are visited as without it.
C11_FalsyPrunes ==
    (Succeeded("traverse") /\ last.cb.ret \in Falsy) =>
        \A n \in last.cb.at :
            (WasVisited(n) /\ getChildren(store, n).val # <<>>) =>
                /\ \A q \in Paths : (IsPrefix(n, q) /\ q # n) => ~WasVisited(q)
                /\ \A x \in ToVisit(store, last.p, last.maxDepth) :
                      ~IsPrefix(n, x.path) => WasVisited(x.path)

Absent(st, pathArray, suffix) ==
    createStorageKey(pathArray, suffix) \notin DOMAIN st

\* C12: nodeExists(p) throws nothing and makes one get, inside no retry: it
\* returns true when the get answers with p's value record, false when it
\* answers that there is none, and false when it raises an error, retryable
\* or not.
C12_NodeExistsNeverRaises ==
    Did("nodeExists") =>
        /\ last.err = "none"
        /\ last.gets = 1
        /\ last.ret = (last.outcome = Success /\ ~Absent(prev, last.p, "value"))
        /\ store = prev

C12_Witness ==
    /\ Did("nodeExists")
    /\ last.outcome.status = 503
    /\ ~Absent(prev, last.p, "value")
    /\ last.p # <<>>
    /\ last.ret = FALSE

C14_MissingNodeNotFound ==
    /\ (Did("getValue") /\ Absent(prev, last.p, "value")) =>
          (last.err = "NotFound" /\ store = prev)
    /\ (Did("getChildren") /\ Absent(prev, last.p, "children")) =>
          (last.err = "NotFound" /\ store = prev)
    /\ (Did("setValue") /\ ~nodeExists(prev, last.p)) =>
          (last.err = "NotFound" /\ store = prev)

C14_Witness ==
    /\ Did("setValue")
    /\ nodeExists(prev, <<>>)
    /\ Len(last.p) = 1
    /\ ~nodeExists(prev, last.p)
    /\ last.v # JSnull
    /\ last.err = "NotFound"

\* C15: the storage keys of two distinct segment sequences differ, for every
\* suffix and whatever strings the segments are (the digest being injective).
C15_KeysCollisionFree ==
    (Did("createStorageKey") /\ last.p # last.q) => last.ret[1] # last.ret[2]

\* the characters that parsePath, so configured, does not take as they are
Hazardous(enabledMethods) ==
    {charCodeAt("/")}
    \cup (IF "BACKSLASH_ESCAPES" \in enabledMethods
          THEN {charCodeAt("\\")} ELSE {})
    \cup (IF "URL_ENCODING" \in enabledMethods THEN {charCodeAt("%")} ELSE {})
    \cup (IF enabledMethods \cap {"HTML_NAMED_ENTITIES", "HTML_NUMERIC_ENTITIES",
                                   "CUSTOM_UNICODE_ENTITIES"} # {}
          THEN {charCodeAt("&")} ELSE {})

\* the methods that escape the character in a form parsePath reads back
AbleToEscape(char) ==
    IF char = charCodeAt("&")
    THEN {"BACKSLASH_ESCAPES", "URL_ENCODING", "HTML_NUMERIC_ENTITIES",
          "HTML_NAMED_ENTITIES"}
    ELSE {"BACKSLASH_ESCAPES", "URL_ENCODING", "HTML_NUMERIC_ENTITIES"}

AllEscapable(components, enabledMethods) ==
    \A j \in 1..Len(components) : \A n \in 1..Len(components[j]) :
        components[j][n] \in Hazardous(enabledMethods) =>
            AbleToEscape(components[j][n]) \cap enabledMethods # {}

\* C16: whatever methods are enabled, for every segment sequence S whose
\* hazardous characters each have an enabled method that escapes them,
\* parsePath(createPath(S)) is S.
C16_CreateThenParseIsIdentity ==
    (Did("createPath") /\ AllEscapable(last.components, last.enabledMethods)) =>
        last.ret.parsed = last.components

\* What the pieces say: the separator ends a component, every other piece
\* adds to the current one, an escaped form adding the one character '/'
RECURSIVE Meant(_, _, _)
Meant(pieces, components, currentComponent) ==
    IF pieces = <<>> THEN Append(components, currentComponent)
    ELSE IF Head(pieces).method # "none"
    THEN Meant(Tail(pieces), components,
               Append(currentComponent, charCodeAt("/")))
    ELSE IF Head(pieces).text = Lit(<<"/">>)
    THEN Meant(Tail(pieces), Append(components, currentComponent), <<>>)
    ELSE Meant(Tail(pieces), components, currentComponent \o Head(pieces).text)

AllEnabled(pieces, enabledMethods) ==
    \A j \in 1..Len(pieces) :
        pieces[j].method = "none" \/ pieces[j].method \in enabledMethods

\* C17: parsePath splits at the unescaped separators and only there: a '/'
\* written in an escaped form of an enabled method is a character of the
\* current component; the components that come out empty are dropped, but
\* for one that is alone.
C17_SplitsAtUnescapedSeparators ==
    (Did("parsePath") /\ AllEnabled(last.pieces, last.enabledMethods)) =>
        last.ret = Filtered(Meant(last.pieces, <<>>, <<>>), TRUE)

C17_Witness ==
    /\ Did("parsePath")
    /\ Len(last.pieces) = 3
    /\ last.pieces[1].method = "URL_ENCODING"
    /\ last.pieces[2] = [text |-> Lit(<<"/">>), method |-> "none"]
    /\ last.pieces[3].method = "CUSTOM_UNICODE_ENTITIES"
    /\ AllEnabled(last.pieces, last.enabledMethods)
    /\ last.ret = <<Lit(<<"/">>), Lit(<<"/">>)>>

Max(S) == CHOOSE x \in S : \A y \in S : y <= x

\* C18: getStats(start) returns the number N of nodes of the subtree of
\* start, the number L of those whose children list is empty, N - L, and the
\* depth below start of the deepest of them.
C18_GetStatsCounts ==
    Succeeded("getStats") =>
        LET nodes == Subtree(store, last.p)
            leaves == {q \in nodes : getChildren(store, q).val = <<>>}
        IN  /\ last.ret.nodeCount = Cardinality(nodes)
            /\ last.ret.leafCount = Cardinality(leaves)
            /\ last.ret.internalNodeCount = Cardinality(nodes) - Cardinality(leaves)
            /\ last.ret.maxDepth = Max({DepthBelow(q, last.p) : q \in nodes})

C18_Witness ==
    /\ Succeeded("getStats")
    /\ last.p = <<>>
    /\ last.ret.nodeCount = 4
    /\ last.ret.leafCount = 2
    /\ last.ret.maxDepth = 2

\* C19: importTree, on an empty store, of what exportTree([]) returned for a
\* tree throws nothing and leaves a tree of which exportTree([]) returns the
\* same: the same values at the same paths, the same children.
C19_ExportImportRoundTrip ==
    (Did("importTree") /\ last.exported.err = "none") =>
        /\ last.err = "none"
        /\ last.ret = last.exported

PathsOf(nodeSpecs) == {nodeSpecs[j].path : j \in 1..Len(nodeSpecs)}

\* C20: batchCreateNodes of specs given in any order, each path having a
\* parent that exists already or is in the list, throws nothing,
\* parent-missing least of all, and every listed node exists afterwards.
C20_BatchCreatesParentsFirst ==
    (Did("batchCreateNodes") /\
     \A path \in PathsOf(last.nodeSpecs) :
         /\ path # <<>>
         /\ nodeExists(prev, parentOf(path))
              \/ parentOf(path) \in PathsOf(last.nodeSpecs)) =>
        /\ last.err = "none"
        /\ \A path \in PathsOf(last.nodeSpecs) : nodeExists(store, path)

\* C21: after createNode(p) or createNode(p, null) has returned, p exists and
\* getValue(p) returns null rather than throwing not-found.
C21_NullValuedNodeExists ==
    (Succeeded("createNode") /\ last.v = JSnull) =>
        /\ nodeExists(store, last.p)
        /\ getValue(store, last.p) = [val |-> JSnull, err |-> "none"]

\* C23: createNode(p) adds p's last segment to its parent's children list
\* and takes no entry from any children list, where p existed already as
\* where it did not; setValue changes no children list. (deleteNode and
\* moveNode take entries out: C3, C2.)
C23_CreateNodeRemovesNoEntry ==
    /\ Succeeded("createNode") =>
          \A q \in Paths : \A c \in Segs :
              Listed(store, q, c) <=>
                  \/ Listed(prev, q, c)
                  \/ (last.p # <<>> /\ q = parentOf(last.p) /\ c = lastSeg(last.p))
    /\ Succeeded("setValue") =>
          \A q \in Paths : \A c \in Segs : Listed(store, q, c) <=> Listed(prev, q, c)

----------------------------------------------------------------------------
(* Properties of concurrent callers and of a store that fails, under         *)
(* SpecRace and SpecFaults                                                   *)

\* the call of caller c is over, by return or by throw
Over(c) == procs[c].call.op # "none" /\ procs[c].stack = <<>>
ReturnedFrom(c, op) == Over(c) /\ procs[c].call.op = op /\ ~Threw(procs[c])
ThrewFrom(c, op) == Over(c) /\ procs[c].call.op = op /\ Threw(procs[c])

\* the children list the store holds for pathArray, empty where it holds none
StoredChildren(st, pathArray) ==
    OrEmpty(kvGet(st, createStorageKey(pathArray, "children")))

\* C22: whatever two callers running createNode, deleteNode, moveNode,
\* importTree and initializeRoot have done so far, in any interleaving and
\* with a store call failing, no stored children list holds a segment twice.
C22_NoDuplicateChildren ==
    \A pathArray \in Paths :
        \A i, j \in 1..Len(StoredChildren(store, pathArray)) :
            i # j => StoredChildren(store, pathArray)[i]
                        # StoredChildren(store, pathArray)[j]

C22_Witness ==
    /\ Over(1) /\ Over(2)
    /\ procs[1].faulted
    /\ procs[1].call.op = "createNode" /\ procs[2].call.op = "moveNode"
    /\ Len(StoredChildren(store, <<>>)) = 2

\* where in its log caller c read the children list of pathArray
ReadsOfChildren(c, pathArray) ==
    {i \in 1..Len(procs[c].log) :
        /\ procs[c].log[i].call = "get"
        /\ procs[c].log[i].pathArray = pathArray
        /\ procs[c].log[i].suffix = "children"
        /\ procs[c].log[i].ok}

\* caller c read the children list of pathArray, and found none of keys in it
SawNone(c, pathArray, keys) ==
    /\ ReadsOfChildren(c, pathArray) # {}
    /\ \A i \in ReadsOfChildren(c, pathArray) :
          \A n \in 1..Len(OrEmpty(procs[c].log[i].v)) :
              OrEmpty(procs[c].log[i].v)[n] \notin keys

\* C24: two callers create two distinct children of one parent, each reads
\* the parent's children list before the other has written it, and both calls
\* return: both nodes exist, and the parent's list holds one of the two
\* segments only.
C24_LostUpdate ==
    LET a == procs[1].call.p
        b == procs[2].call.p
    IN  (/\ ReturnedFrom(1, "createNode") /\ ReturnedFrom(2, "createNode")
         /\ a # b
         /\ parentOf(a) = parentOf(b)
         /\ SawNone(1, parentOf(a), {lastSeg(a), lastSeg(b)})
         /\ SawNone(2, parentOf(a), {lastSeg(a), lastSeg(b)})) =>
            /\ nodeExists(store, a)
            /\ nodeExists(store, b)
            /\ Listed(store, parentOf(a), lastSeg(a))
                  # Listed(store, parentOf(a), lastSeg(b))

C24_Witness ==
    /\ ReturnedFrom(1, "createNode") /\ ReturnedFrom(2, "createNode")
    /\ procs[1].call.p = <<"a", "a">>
    /\ procs[2].call.p = <<"a", "b">>
    /\ SawNone(1, <<"a">>, {"a", "b"})
    /\ SawNone(2, <<"a">>, {"a", "b"})
    /\ getChildren(store, <<"a">>).val = <<"a">>

\* moveNode threw from its catch block: the checks were passed
MoveFailed(c) ==
    /\ ThrewFrom(c, "moveNode")
    /\ procs[c].res.e.msg[1] = "MoveFailed"

\* C25: when moveNode(s, t, k) has thrown after its checks, a store call
\* having failed, every node of the subtree s had still has the value it had,
\* at its path or at the path under t+[k] it was to be moved to.
C25_FailedMoveLosesNothing ==
    LET s == procs[1].call.p
        newPath == Append(procs[1].call.t, procs[1].call.k)
    IN  (MoveFailed(1) /\ procs[1].made = 1) =>
            \A q \in Subtree(procs[1].start, s) :
                \/ getValue(store, q) = getValue(procs[1].start, q)
                \/ getValue(store, Rebase(q, s, newPath)) = getValue(procs[1].start, q)

\* where in its log caller c entered the catch block of moveNode
Catching(c) ==
    {i \in 1..Len(procs[c].log) : procs[c].log[i].call = "catch"}

\* the deleteNode calls caller c made from log entry i on
DeletesFrom(c, i) ==
    {j \in i..Len(procs[c].log) : procs[c].log[j].call = "deleteNode"}

ValidationErrors == {"InvalidOperation", "NotFound", "ParentMissing", "AlreadyExists"}

\* C26: a moveNode in which something failed after the checks has entered its
\* catch block once, has called deleteNode once from there, on the
\* destination path, and has thrown an error whose message is 'Failed to move
\* node: ' and the message of the error caught, whether the cleanup threw or
\* not; and a moveNode that threw anything but the error of a check has been
\* through the catch block.
C26_CleanupOnceOriginalErrorWins ==
    LET newPath == Append(procs[1].call.t, procs[1].call.k)
    IN  /\ (Over(1) /\ procs[1].call.op = "moveNode" /\ Catching(1) # {}) =>
              /\ Cardinality(Catching(1)) = 1
              /\ \A i \in Catching(1) :
                    /\ Cardinality(DeletesFrom(1, i)) = 1
                    /\ \A j \in DeletesFrom(1, i) : procs[1].log[j].pathArray = newPath
                    /\ Threw(procs[1])
                    /\ procs[1].res.e.msg = <<"MoveFailed">> \o procs[1].log[i].v.msg
        /\ (ThrewFrom(1, "moveNode") /\ Len(procs[1].res.e.msg) > 1) => Catching(1) # {}
        /\ (ThrewFrom(1, "moveNode") /\ Len(procs[1].res.e.msg) = 1) =>
              procs[1].res.e.msg[1] \in ValidationErrors

\* a move whose delete of the source failed and whose cleanup failed as well
C26_Witness ==
    /\ MoveFailed(1)
    /\ faults = 2
    /\ procs[1].res.e.msg = <<"MoveFailed", "DeleteFailed", "Refused">>
    /\ \E i \in Catching(1) : \E j \in (i + 1)..Len(procs[1].log) :
          ~procs[1].log[j].ok /\ procs[1].log[j].call = "delete"

\* where in its log caller c put the record of pathArray with this suffix
PutsOf(c, pathArray, suffix) ==
    {i \in 1..Len(procs[c].log) :
        /\ procs[c].log[i].call = "put"
        /\ procs[c].log[i].pathArray = pathArray
        /\ procs[c].log[i].suffix = suffix
        /\ procs[c].log[i].ok}

\* C27: while createNode(p) runs for a non-root p, and after it has returned
\* or thrown, p's last segment has come into its parent's children list only
\* after this call has put p's value record, then its parent record, then its
\* children record, and these records are in the store.
C27_LinkedAfterRecords ==
    LET pathArray == procs[1].call.p
    IN  (/\ procs[1].made = 1
         /\ procs[1].call.op = "createNode"
         /\ ~Listed(procs[1].start, parentOf(pathArray), lastSeg(pathArray))
         /\ Listed(store, parentOf(pathArray), lastSeg(pathArray))) =>
            /\ kvGet(store, createStorageKey(pathArray, "value")) # JSnull
            /\ kvGet(store, createStorageKey(pathArray, "children")) # JSnull
            /\ \A l \in PutsOf(1, parentOf(pathArray), "children") :
                  \E i \in PutsOf(1, pathArray, "value") :
                  \E j \in PutsOf(1, pathArray, "parent") :
                  \E k \in PutsOf(1, pathArray, "children") :
                      i < j /\ j < k /\ k < l

\* createNode(['a','b']) that ran its writes twice, the first run having
\* failed, and has linked the node
C27_Witness ==
    /\ ReturnedFrom(1, "createNode")
    /\ procs[1].made = 1
    /\ procs[1].call.p = <<"a", "b">>
    /\ procs[1].faulted
    /\ Cardinality(PutsOf(1, <<"a", "b">>, "value")) = 2
    /\ ~Listed(procs[1].start, <<"a">>, "b")
    /\ Listed(store, <<"a">>, "b")

\* where in its log caller c deleted the record of pathArray with this suffix
DeletesOf(c, pathArray, suffix) ==
    {i \in 1..Len(procs[c].log) :
        /\ procs[c].log[i].call = "delete"
        /\ procs[c].log[i].pathArray = pathArray
        /\ procs[c].log[i].suffix = suffix
        /\ procs[c].log[i].ok}

\* by log entry i caller c has deleted the three records of pathArray
RecordsDeletedBy(c, pathArray, i) ==
    \A suffix \in {"value", "children", "parent"} :
        \E j \in DeletesOf(c, pathArray, suffix) : j < i

\* the paths deleteNode collected, as the log of caller c has them
Collected(c) ==
    LET at == CHOOSE i \in 1..Len(procs[c].log) :
                  /\ procs[c].log[i].call = "allPaths"
                  /\ \A j \in 1..(i - 1) : procs[c].log[j].call # "allPaths"
    IN  {procs[c].log[at].v[n] : n \in 1..Len(procs[c].log[at].v)}

HasCollected(c) ==
    \E i \in 1..Len(procs[c].log) : procs[c].log[i].call = "allPaths"

HasRecord(st, pathArray) ==
    \E suffix \in {"value", "children", "parent"} :
        createStorageKey(pathArray, suffix) \in DOMAIN st

\* caller c is in, or past, a second deleteNode(p), the first one, of a node
\* that existed, having thrown after a store call of it failed
DeletesAgain(c) ==
    /\ procs[c].made = 2
    /\ procs[c].earlier.call.op = "deleteNode"
    /\ nodeExists(procs[c].earlier.start, procs[c].earlier.call.p)
    /\ procs[c].earlier.threw
    /\ procs[c].earlier.faulted
    /\ procs[c].call.op = "deleteNode"
    /\ procs[c].call.p = procs[c].earlier.call.p

\* C29: when deleteNode(p) of a node has thrown, a store call having failed, and a
\* second deleteNode(p) has run with no store call failing, the second one has
\* returned, no node of the subtree p had has a record, and the children list
\* of p's parent does not hold p's segment.
C29_DeleteNodeRetriedCompletes ==
    LET pathArray == procs[1].call.p
    IN  (DeletesAgain(1) /\ Over(1) /\ ~procs[1].faulted) =>
            /\ ReturnedFrom(1, "deleteNode")
            /\ \A q \in Subtree(procs[1].earlier.start, pathArray) :
                  ~HasRecord(store, q)
            /\ ~Listed(store, parentOf(pathArray), lastSeg(pathArray))

\* a step that leaves the value record of a root that exists as it is and
\* every segment of the root's children list in the list
KeepsRoot ==
    LET valueKey == createStorageKey(<<>>, "value")
        before == StoredChildren(store, <<>>)
        after == StoredChildren(store', <<>>)
    IN  nodeExists(store, <<>>) =>
            /\ valueKey \in DOMAIN store'
            /\ store'[valueKey] = store[valueKey]
            /\ \A i \in 1..Len(before) : \E j \in 1..Len(after) : after[j] = before[i]

\* C30: no step of a caller's initializeRoot, whatever another caller does
\* between its steps and whichever of its store calls fails, changes the value
\* record of a root that exists or takes a segment out of the root's children
\* list.
C30_InitializeRootKeepsRoot ==
    [][\A c \in Callers :
          (procs[c].call.op = "initializeRoot" /\ procs'[c] # procs[c]) => KeepsRoot]_vars

\* where in its log caller c made this call of the store, answered or failed
CallsOf(c, call, pathArray, suffix) ==
    {i \in 1..Len(procs[c].log) :
        /\ procs[c].log[i].call = call
        /\ procs[c].log[i].pathArray = pathArray
        /\ procs[c].log[i].suffix = suffix}

\* C31: while createNode(p) runs and after it, each of its store calls (the
\* puts of p's value, parent and children record, the get and the put of the
\* parent's children list) has been made at most maxRetries times, and none
\* of p's records has been put successfully more than once.
C31_CreateNodeCallsAtMostMaxRetries ==
    LET pathArray == procs[1].call.p
        parentPath == parentOf(pathArray)
    IN  (procs[1].made = 1 /\ procs[1].call.op = "createNode") =>
            /\ \A suffix \in {"value", "parent", "children"} :
                  /\ Cardinality(CallsOf(1, "put", pathArray, suffix)) <= StepMaxRetries
                  /\ Cardinality(PutsOf(1, pathArray, suffix)) <= 1
            /\ Cardinality(CallsOf(1, "get", parentPath, "children")) <= StepMaxRetries
            /\ Cardinality(CallsOf(1, "put", parentPath, "children")) <= StepMaxRetries

\* C32: in every state one caller reaches by createNode, setValue, deleteNode
\* and moveNode calls that all returned normally, on a store that never
\* fails, a node other than the root that exists has a parent that exists.
C32_EveryNodeHasItsParent ==
    \A p \in Paths :
        (p # <<>> /\ nodeExists(store, p)) => nodeExists(store, parentOf(p))

====
